---- MODULE Spec2Model ----
(***************************************************************************)
(* A model of the chunked scanning driver of the memory-dump carver        *)
(* (src/src/carver.py, class MemoryCarver) together with the signature     *)
(* registry it works from (src/src/file_signatures.py).                    *)
(*                                                                         *)
(* The capture is described by its length and by the places where magic    *)
(* bytes occur.  Every such place (a "hit") carries what the bytes behind  *)
(* it make the format oracle return, and an identifier of those bytes, so  *)
(* that two reads of the same bytes compare equal and reads of different   *)
(* bytes do not.  A file name is the pair of its base and its extension, a *)
(* path the directory followed by that pair.                               *)
(***************************************************************************)
EXTENDS Integers, Sequences, FiniteSets, TLC

VARIABLES
    dump,               \* the capture: [size, hits]
    chunk_size,         \* MemoryCarver.chunk_size
    max_files_per_type, \* MemoryCarver.max_files_per_type
    stats,              \* MemoryCarver.stats: type -> counter
    manifest,           \* MemoryCarver.manifest: sequence of CarveEntry
    fs,                 \* files under the output directory: path -> content
    manifest_file,      \* carve_manifest.json in the output directory
    pc,                 \* position of the carver
    offset,             \* carve_dump: offset
    chunk_offset,       \* _process_chunk: chunk_start
    chunk_len,          \* len(chunk_data)
    sig_idx,            \* _process_chunk: position in signatures_to_search
    search_pos,         \* _search_signature_in_chunk: search_pos
    win,                \* number of the window being processed (0 = first)
    scan_no,            \* number of carve_dump calls so far
    fault_budget,       \* failures the environment may still inject
    handed,             \* history: hits handed to _extract_file in this scan
    skipped,            \* history: hits skipped by the overlap rule in this scan
    searched,           \* history: (type, window) pairs whose search was started
    last,               \* history: what the last _extract_file call did
    scans,              \* history: outcome of every finished scan
    probe,              \* the oracle call under examination
    result              \* what that call handed back

vars == <<dump, chunk_size, max_files_per_type, stats, manifest, fs,
          manifest_file, pc, offset, chunk_offset, chunk_len, sig_idx,
          search_pos, win, scan_no, fault_budget, handed, skipped, searched,
          last, scans, probe, result>>

(***************************************************************************)
(* Bounds of the model.                                                    *)
(***************************************************************************)
MaxHits == 2          \* magic-byte occurrences in one capture
MaxFilesCap == 2      \* largest per-type cap tried
MaxScans == 2         \* carve_dump calls in one behaviour
MaxFaults == 1        \* injected failures in one behaviour

(***************************************************************************)
(* Program constants.                                                      *)
(***************************************************************************)
overlap_size == 2048
OverlapSkip == 2048
DdsMinSize == 128
DdsMaxSize == 52428800
ScriptMinSize == 20
ScriptMaxSize == 102400
ZlibMinSize == 10
ZlibMaxSize == 10485760
ZlibMinDecompressed == 50

Max(a, b) == IF a >= b THEN a ELSE b
Min(a, b) == IF a <= b THEN a ELSE b

(***************************************************************************)
(* Byte buffers and the format oracles of src/src/parsers.py.              *)
(* A buffer is a sequence of byte values; byte i of the source is element  *)
(* i + 1 here.  Field values are kept below 2^31, the width of the         *)
(* integers of the model checker; the source's integers are unbounded.     *)
(***************************************************************************)

\* data[a:b]: a slice is clamped to the buffer and never fails
Slice(data, a, b) == SubSeq(data, Max(a, 0) + 1, Min(b, Len(data)))

\* bytes.find(needle, start): the first index >= start, or -1
Find_bytes(data, needle, start) ==
    LET at == {i \in Max(start, 0)..(Len(data) - Len(needle)) :
                    Slice(data, i, i + Len(needle)) = needle}
    IN  IF at = {} THEN -1 ELSE CHOOSE i \in at : \A j \in at : i <= j

\* bytes.rfind(needle, 0, stop): the last index whose match ends by stop
Rfind_bytes(data, needle, stop) ==
    LET at == {i \in 0..(Min(stop, Len(data)) - Len(needle)) :
                    Slice(data, i, i + Len(needle)) = needle}
    IN  IF at = {} THEN -1 ELSE CHOOSE i \in at : \A j \in at : i >= j

\* a statement either yields a value or raises an exception of some class
Value(v) == [exc |-> "none", val |-> v]
Raise(e) == [exc |-> e, val |-> 0]

\* struct.unpack_from("<I", data, at): struct.error on a short buffer
read_uint32_le(data, off) ==
    IF off < 0 \/ off + 4 > Len(data)
    THEN Raise("struct.error")
    ELSE Value(data[off + 1] + 256 * data[off + 2] + 65536 * data[off + 3]
               + 16777216 * data[off + 4])

\* struct.unpack_from(">I", data, at)
read_uint32_be(data, off) ==
    IF off < 0 \/ off + 4 > Len(data)
    THEN Raise("struct.error")
    ELSE Value(16777216 * data[off + 1] + 65536 * data[off + 2]
               + 256 * data[off + 3] + data[off + 4])

\* struct.unpack(">I", four): struct.error unless exactly four bytes
unpack_be(four) ==
    IF Len(four) # 4 THEN Raise("struct.error") ELSE read_uint32_be(four, 0)

\* what an oracle hands back: None, or a verdict (a record with status
\* "verdict"); an exception that leaves the oracle has status "raised".
\* caught tells that an exception was raised inside and handled there.
Reject == [status |-> "none", caught |-> FALSE]
Escaped(e) == [status |-> "raised", caught |-> FALSE, exc |-> e]

\* try: body  except handled: return None
TryExcept(r, handled) ==
    IF r.exc = "none" THEN r.val
    ELSE IF r.exc \in handled THEN [Reject EXCEPT !.caught = TRUE]
    ELSE Escaped(r.exc)

TryExcept_Unhandled(r, handled) ==
    IF r.exc = "none" THEN r.val ELSE Escaped(r.exc)

StructOrIndexError == {"struct.error", "IndexError"}

(* ---- XMAParser ---- *)
RIFF == <<82, 73, 70, 70>>
WAVE == <<87, 65, 86, 69>>
FmtChunk == <<102, 109, 116, 32>>
XMA2 == <<88, 77, 65, 50>>
XMA_FORMAT_CODES == {357, 358}
\* how far from the start of the container a sub-chunk is still examined
LookAhead == 200

\* _is_xma_chunk without the test of the fmt chunk's format tag
IsXmaChunk_Xma2Only(data, search_offset) ==
    Value(Slice(data, search_offset, search_offset + 4) = XMA2)

IsXmaChunk(data, search_offset) ==
    LET chunk_id == Slice(data, search_offset, search_offset + 4)
    IN  IF chunk_id = XMA2 THEN Value(TRUE)
        ELSE IF chunk_id = FmtChunk /\ Len(data) >= search_offset + 10
        THEN LET format_tag == read_uint32_le(data, search_offset + 8)
             IN  IF format_tag.exc # "none" THEN format_tag
                 ELSE Value((format_tag.val % 65536) \in XMA_FORMAT_CODES)
        ELSE Value(FALSE)

\* the while loop of parse_header over the sub-chunks
RECURSIVE XmaChunkWalk(_, _, _, _)
XmaChunkWalk(data, at, search_offset, file_size) ==
    IF search_offset < Min(at + LookAhead, Len(data) - 8)
    THEN IF Len(data) < search_offset + 8 THEN Value(Reject)
         ELSE LET is_xma == IsXmaChunk(data, search_offset)
                  chunk_bytes == read_uint32_le(data, search_offset + 4)
              IN  IF is_xma.exc # "none" THEN is_xma
                  ELSE IF is_xma.val
                  THEN Value([status |-> "verdict", caught |-> FALSE,
                              file_size |-> file_size, is_xma |-> TRUE])
                  ELSE IF chunk_bytes.exc # "none" THEN chunk_bytes
                  ELSE XmaChunkWalk(data, at,
                           search_offset + 8 + chunk_bytes.val + (chunk_bytes.val % 2),
                           file_size)
    ELSE Value(Reject)

XmaTryBody(data, at) ==
    IF Slice(data, at, at + 4) # RIFF THEN Value(Reject)
    ELSE LET declared == read_uint32_le(data, at + 4)
         IN  IF declared.exc # "none" THEN declared
             ELSE IF Slice(data, at + 8, at + 12) # WAVE THEN Value(Reject)
             ELSE XmaChunkWalk(data, at, at + 12, declared.val + 8)

XmaParseHeader_NoExcept(data, at) ==
    IF Len(data) < at + 12 THEN Reject
    ELSE TryExcept_Unhandled(XmaTryBody(data, at), StructOrIndexError)

XmaParseHeader(data, at) ==
    IF Len(data) < at + 12 THEN Reject
    ELSE TryExcept(XmaTryBody(data, at), StructOrIndexError)

(* ---- PNGParser ---- *)
PNG_MAGIC == <<137, 80, 78, 71, 13, 10, 26, 10>>
IHDR == <<73, 72, 68, 82>>
IEND_CHUNK == <<73, 69, 78, 68>>
PngChunkLimit == 52428800

\* the while loop of parse_header over the chunks; yields file_size
RECURSIVE PngChunkWalk(_, _, _)
PngChunkWalk(data, chunk_at, file_size) ==
    IF chunk_at < Len(data) - 12
    THEN LET chunk_length == unpack_be(Slice(data, chunk_at, chunk_at + 4))
             chunk_type == Slice(data, chunk_at + 4, chunk_at + 8)
             chunk_total == 12 + chunk_length.val
         IN  IF chunk_length.exc # "none" THEN chunk_length
             ELSE IF chunk_length.val > PngChunkLimit THEN Value(file_size)
             ELSE IF chunk_type = IEND_CHUNK THEN Value(file_size + chunk_total)
             ELSE IF file_size + chunk_total > PngChunkLimit
             THEN Value(file_size + chunk_total)
             ELSE PngChunkWalk(data, chunk_at + chunk_total, file_size + chunk_total)
    ELSE Value(file_size)

PngTryBody(data, at) ==
    IF Slice(data, at, at + 8) # PNG_MAGIC THEN Value(Reject)
    ELSE LET file_size == PngChunkWalk(data, at + 8, 8)
             has_ihdr == /\ Len(data) >= at + 24
                         /\ Slice(data, at + 12, at + 16) = IHDR
             width == unpack_be(Slice(data, at + 16, at + 20))
             height == unpack_be(Slice(data, at + 20, at + 24))
         IN  IF file_size.exc # "none" THEN file_size
             ELSE IF has_ihdr /\ width.exc # "none" THEN width
             ELSE IF has_ihdr /\ height.exc # "none" THEN height
             ELSE Value([status |-> "verdict", caught |-> FALSE,
                         estimated_size |-> file_size.val,
                         width |-> IF has_ihdr THEN width.val ELSE 0,
                         height |-> IF has_ihdr THEN height.val ELSE 0])

PngParseHeader(data, at) ==
    IF Len(data) < at + 33 THEN Reject
    ELSE TryExcept(PngTryBody(data, at), StructOrIndexError)

(* ---- ScriptParser ---- *)
\* the default of parse_script's max_size, which the carver leaves in place
ParseScriptMaxSize == 100000
\* str.isspace() on ASCII text, the characters strip() removes
AsciiSpace == {9, 10, 11, 12, 13, 28, 29, 30, 31, 32}
Newline == <<10>>
SCRIPT_HEADERS == {<<115, 99, 110, 32>>, <<83, 99, 110, 32>>, <<83, 67, 78, 32>>, <<83, 99, 114, 105, 112, 116, 78, 97, 109, 101, 32>>, <<115, 99, 114, 105, 112, 116, 110, 97, 109, 101, 32>>, <<83, 67, 82, 73, 80, 84, 78, 65, 77, 69, 32>>}
ScnPrefix == <<115, 99, 110, 32>>
ScriptnamePrefix == <<115, 99, 114, 105, 112, 116, 110, 97, 109, 101, 32>>
EndWord == <<101, 110, 100>>
NewlineEnd == <<10, 101, 110, 100>>
UnknownName == <<117, 110, 107, 110, 111, 119, 110>>

\* the characters a sanitized script name is made of, by byte value
NameChars ==
        (45 :> "-") @@ (48 :> "0") @@ (49 :> "1") @@ (50 :> "2") @@ (51 :>
        "3") @@ (52 :> "4") @@ (53 :> "5") @@ (54 :> "6") @@ (55 :> "7") @@
        (56 :> "8") @@ (57 :> "9") @@ (65 :> "A") @@ (66 :> "B") @@ (67 :>
        "C") @@ (68 :> "D") @@ (69 :> "E") @@ (70 :> "F") @@ (71 :> "G") @@
        (72 :> "H") @@ (73 :> "I") @@ (74 :> "J") @@ (75 :> "K") @@ (76 :>
        "L") @@ (77 :> "M") @@ (78 :> "N") @@ (79 :> "O") @@ (80 :> "P") @@
        (81 :> "Q") @@ (82 :> "R") @@ (83 :> "S") @@ (84 :> "T") @@ (85 :>
        "U") @@ (86 :> "V") @@ (87 :> "W") @@ (88 :> "X") @@ (89 :> "Y") @@
        (90 :> "Z") @@ (95 :> "_") @@ (97 :> "a") @@ (98 :> "b") @@ (99 :>
        "c") @@ (100 :> "d") @@ (101 :> "e") @@ (102 :> "f") @@ (103 :> "g")
        @@ (104 :> "h") @@ (105 :> "i") @@ (106 :> "j") @@ (107 :> "k") @@
        (108 :> "l") @@ (109 :> "m") @@ (110 :> "n") @@ (111 :> "o") @@ (112
        :> "p") @@ (113 :> "q") @@ (114 :> "r") @@ (115 :> "s") @@ (116 :>
        "t") @@ (117 :> "u") @@ (118 :> "v") @@ (119 :> "w") @@ (120 :> "x")
        @@ (121 :> "y") @@ (122 :> "z")

\* the sanitized name as the text _generate_filename puts in the file name
RECURSIVE NameText(_)
NameText(name) ==
    IF name = << >> THEN "" ELSE NameChars[Head(name)] \o NameText(Tail(name))

\* bytes.decode("ascii", errors="ignore"): bytes above 127 are dropped
DecodeAsciiIgnore(b) == SelectSeq(b, LAMBDA x : x < 128)
Lower(s) == [i \in 1..Len(s) |-> IF s[i] \in 65..90 THEN s[i] + 32 ELSE s[i]]
Rstrip(s) ==
    LET keep == {i \in 1..Len(s) : s[i] \notin AsciiSpace}
    IN  IF keep = {} THEN << >>
        ELSE SubSeq(s, 1, CHOOSE i \in keep : \A j \in keep : j <= i)
Strip(s) ==
    LET keep == {i \in 1..Len(s) : s[i] \notin AsciiSpace}
    IN  IF keep = {} THEN << >>
        ELSE SubSeq(s, CHOOSE i \in keep : \A j \in keep : i <= j,
                       CHOOSE i \in keep : \A j \in keep : j <= i)
StartsWith(s, p) == Len(s) >= Len(p) /\ SubSeq(s, 1, Len(p)) = p
EndsWith(s, p) == Len(s) >= Len(p) /\ SubSeq(s, Len(s) - Len(p) + 1, Len(s)) = p
Contains(s, p) == Find_bytes(s, p, 0) # -1
\* s.split(c)[0] when c occurs in s, else s
SplitFirst(s, c) ==
    LET at == {i \in 1..Len(s) : s[i] = c}
    IN  IF at = {} THEN s
        ELSE SubSeq(s, 1, (CHOOSE i \in at : \A j \in at : i <= j) - 1)
IsAlnum(c) == c \in (48..57) \cup (65..90) \cup (97..122)

\* _extract_script_name; None is the empty name, which no valid name equals
ExtractScriptName(first_line) ==
    LET lower_line == Lower(first_line)
        raw == IF StartsWith(lower_line, ScnPrefix)
               THEN Strip(SubSeq(first_line, 5, Len(first_line)))
               ELSE IF StartsWith(lower_line, ScriptnamePrefix)
               THEN Strip(SubSeq(first_line, 12, Len(first_line)))
               ELSE << >>
        script_name == SplitFirst(SplitFirst(SplitFirst(SplitFirst(raw, 59), 13), 9), 32)
    IN  IF \A i \in 1..Len(script_name) : IsAlnum(script_name[i]) \/ script_name[i] = 95
        THEN script_name ELSE << >>

\* data[i] with i >= 0: IndexError at or beyond the end
ByteAt(data, i) ==
    IF i >= Len(data) THEN Raise("IndexError") ELSE Value(data[i + 1])

\* _find_script_end without heuristic 1: no search for the next header
HeaderBoundary_NoSearch(script_data, search_start) == Len(script_data)

\* heuristic 1 of _find_script_end: the line end before the next header
HeaderBoundary(script_data, search_start) ==
    LET cuts == {IF Rfind_bytes(script_data, Newline, Find_bytes(script_data, header, search_start)) # -1
                 THEN Rfind_bytes(script_data, Newline, Find_bytes(script_data, header, search_start))
                 ELSE Find_bytes(script_data, header, search_start) :
                    header \in {x \in SCRIPT_HEADERS : Find_bytes(script_data, x, search_start) # -1}}
                \cup {Len(script_data)}
    IN  CHOOSE c \in cuts : \A d \in cuts : c <= d

\* heuristic 2: stop at the first byte that is not printable text
RECURSIVE GarbageScan(_, _, _)
GarbageScan(script_data, i, end_pos) ==
    IF i >= Len(Slice(script_data, 0, end_pos)) THEN Value(end_pos)
    ELSE LET byte == ByteAt(script_data, i)
         IN  IF byte.exc # "none" THEN byte
             ELSE IF \/ byte.val = 0
                     \/ (byte.val < 32 /\ byte.val \notin {9, 10, 13})
                     \/ byte.val > 126
             THEN Value(Min(end_pos, i))
             ELSE GarbageScan(script_data, i + 1, end_pos)

\* _find_script_end without the trimming loop
TrimTrailing_NoTrim(script_data, end_pos) == Value(end_pos)

\* trailing whitespace is trimmed
RECURSIVE TrimTrailing(_, _)
TrimTrailing(script_data, end_pos) ==
    IF end_pos > 0
    THEN LET byte == ByteAt(script_data, end_pos - 1)
         IN  IF byte.exc # "none" THEN byte
             ELSE IF byte.val \in {9, 10, 13, 32}
             THEN TrimTrailing(script_data, end_pos - 1)
             ELSE Value(end_pos)
    ELSE Value(end_pos)

FindScriptEnd(script_data, first_line_end) ==
    LET cut == GarbageScan(script_data, 0, HeaderBoundary(script_data, first_line_end + 1))
    IN  IF cut.exc # "none" THEN cut ELSE TrimTrailing(script_data, cut.val)

\* the completeness test of parse_script on the lower-cased text
IsComplete(script_text) ==
    Contains(script_text, NewlineEnd) \/ EndsWith(Rstrip(script_text), EndWord)

ScriptTryBody(data, at, max_size) ==
    LET script_data == Slice(data, at, Min(at + max_size, Len(data)))
        first_line_end == Find_bytes(script_data, Newline, 0)
        first_line == Strip(DecodeAsciiIgnore(Slice(script_data, 0, first_line_end)))
        script_name == ExtractScriptName(first_line)
        remaining == Slice(script_data, first_line_end + 1, Len(script_data))
        kept == SelectSeq(script_name, LAMBDA c : IsAlnum(c) \/ c \in {95, 45})
        safe_name == IF kept = << >> THEN UnknownName ELSE kept
        end_pos == FindScriptEnd(script_data, first_line_end)
        script_text == Lower(DecodeAsciiIgnore(Slice(script_data, 0, end_pos.val)))
    IN  IF first_line_end = -1 THEN Value(Reject)
        ELSE IF script_name = << >> THEN Value(Reject)
        ELSE IF Len(remaining) < 5 \/ Find_bytes(remaining, Newline, 0) = -1
        THEN Value(Reject)
        ELSE IF end_pos.exc # "none" THEN end_pos
        ELSE IF end_pos.val < 10 THEN Value(Reject)
        ELSE Value([status |-> "verdict", caught |-> FALSE, name |-> safe_name,
                    size |-> end_pos.val, is_complete |-> IsComplete(script_text)])

ScriptParseScript(data, at, max_size) ==
    IF Len(data) < at + 10 THEN Reject
    ELSE TryExcept(ScriptTryBody(data, at, max_size), {"UnicodeDecodeError"})

(* ---- ZlibStreamParser ---- *)
(* zlib itself is a library outside the repository.  It is modelled by the *)
(* stream format it reads: a two-byte header, deflate blocks, and the      *)
(* Adler-32 of the payload.  The streams of the model are built from       *)
(* stored blocks (block type 00, what zlib writes at level 0); a block of  *)
(* another type is refused.                                                *)
ZLIB_LOW == <<120, 1>>
ZLIB_DEFAULT == <<120, 156>>
ZLIB_BEST == <<120, 218>>
AdlerBase == 65521
TrySizes == <<1024, 4096, 16384, 65536, 262144>>
MaxCompressedSize == 1048576
MinOracleDecompressed == 20

\* the sum of f[lo..hi], by halves
RECURSIVE SumOver(_, _, _)
SumOver(f, lo, hi) ==
    IF lo > hi THEN 0
    ELSE IF lo = hi THEN f[lo]
    ELSE SumOver(f, lo, (lo + hi) \div 2) + SumOver(f, (lo + hi) \div 2 + 1, hi)

\* the four bytes of the Adler-32 checksum of p, most significant first
Adler32(p) ==
    LET n == Len(p)
        a == (1 + SumOver(p, 1, n)) % AdlerBase
        b == (n + SumOver([i \in 1..n |-> (n - i + 1) * p[i]], 1, n)) % AdlerBase
    IN  <<b \div 256, b % 256, a \div 256, a % 256>>

\* one stored deflate block: final flag, LEN, its complement, the bytes
StoredBlock(p, final) ==
    <<final, Len(p) % 256, Len(p) \div 256, 255 - (Len(p) % 256), 255 - (Len(p) \div 256)>> \o p

\* zlib.compress(p): header, the payload in one final block, checksum
ZlibCompress(header, p) == header \o StoredBlock(p, 1) \o Adler32(p)

\* the deflate blocks of chunk from index pos on; out is what came before
RECURSIVE InflateBlocks(_, _, _)
InflateBlocks(chunk, pos, out) ==
    IF pos + 5 > Len(chunk) THEN Raise("zlib.error")
    ELSE LET block_len == chunk[pos + 2] + 256 * chunk[pos + 3]
             complement == chunk[pos + 4] + 256 * chunk[pos + 5]
             body == SubSeq(chunk, pos + 6, pos + 5 + block_len)
         IN  IF (chunk[pos + 1] \div 2) % 4 # 0 THEN Raise("zlib.error")
             ELSE IF block_len + complement # 65535 THEN Raise("zlib.error")
             ELSE IF pos + 5 + block_len > Len(chunk) THEN Raise("zlib.error")
             ELSE IF chunk[pos + 1] % 2 = 1
             THEN Value([data |-> out \o body, next |-> pos + 5 + block_len])
             ELSE InflateBlocks(chunk, pos + 5 + block_len, out \o body)

\* one zlib stream at the start of chunk: the payload and the number of
\* bytes of chunk the stream occupies; zlib.error when the stream is
\* damaged or does not end inside chunk
Inflate(chunk) ==
    IF Len(chunk) < 2 THEN Raise("zlib.error")
    ELSE IF \/ chunk[1] % 16 # 8
            \/ chunk[1] \div 16 > 7
            \/ (256 * chunk[1] + chunk[2]) % 31 # 0
            \/ (chunk[2] \div 32) % 2 = 1
    THEN Raise("zlib.error")
    ELSE LET blocks == InflateBlocks(chunk, 2, << >>)
         IN  IF blocks.exc # "none" THEN blocks
             ELSE IF blocks.val.next + 4 > Len(chunk) THEN Raise("zlib.error")
             ELSE IF SubSeq(chunk, blocks.val.next + 1, blocks.val.next + 4) # Adler32(blocks.val.data)
             THEN Raise("zlib.error")
             ELSE Value([data |-> blocks.val.data, consumed |-> blocks.val.next + 4])

\* _SIGNATURE_MAP: magic prefix, content type, extension
SIGNATURE_MAP == {<<(<<68, 68, 83, 32>>), "dds", ".dds">>, <<(<<51, 88, 68, 79>>), "ddx", ".ddx">>, <<(<<51, 88, 68, 82>>), "ddx", ".ddx">>, <<(<<84, 69, 83, 52>>), "esp", ".esp">>, <<(<<66, 83, 65, 0>>), "bsa", ".bsa">>, <<(<<79, 103, 103, 83>>), "ogg", ".ogg">>, <<(<<137, 80, 78, 71>>), "png", ".png">>, <<(<<66, 73, 75, 105>>), "bik", ".bik">>, <<(<<76, 73, 80, 83>>), "lip", ".lip">>, <<(<<88, 69, 88, 50>>), "xex", ".xex">>, <<(<<88, 68, 66, 70>>), "xdbf", ".xdbf">>, <<(<<88, 85, 73, 83>>), "xui", ".xui">>, <<(<<88, 85, 73, 66>>), "xui", ".xui">>}
NIF_MAGIC == <<71, 97, 109, 101, 98, 114, 121, 111, 32, 70, 105, 108, 101, 32, 70, 111, 114, 109, 97, 116>>
DATA_CHUNK == <<68, 65, 84, 65>>
VNML == <<86, 78, 77, 76>>
ScriptStarts == {<<115, 99, 110>>, <<83, 99, 110>>, <<83, 67, 78>>}
ScriptNameWord == <<83, 99, 114, 105, 112, 116, 78, 97, 109, 101>>
XmlDeclaration == <<60, 63, 120, 109, 108>>
Printable(b) == (32 <= b /\ b < 127) \/ b \in {9, 10, 13}

\* _check_xml_content on text that is ASCII; other text does not decode
CheckXmlContent(decompressed) ==
    LET text_sample == Slice(decompressed, 0, 500)
    IN  /\ \A i \in 1..Len(text_sample) : text_sample[i] < 128
        /\ Contains(text_sample, <<60>>)
        /\ Contains(text_sample, <<62>>)

\* _check_text_content: more than 85 in 100 of the first 500 bytes printable
CheckTextContent(decompressed) ==
    LET text_sample == Slice(decompressed, 0, Min(500, Len(decompressed)))
    IN  /\ Len(decompressed) > 20
        /\ 20 * Cardinality({i \in 1..Len(text_sample) : Printable(text_sample[i])}) > 17 * Len(text_sample)

\* _determine_content_type: content type and extension
DetermineContentType(decompressed) ==
    LET sig_match == {m \in SIGNATURE_MAP : StartsWith(decompressed, m[1])}
    IN  IF StartsWith(decompressed, NIF_MAGIC) THEN <<"nif", ".nif">>
        ELSE IF StartsWith(decompressed, DATA_CHUNK)
        THEN IF Contains(Slice(decompressed, 0, 20), VNML)
             THEN <<"vnml", ".vnml">> ELSE <<"data_chunk", ".data">>
        ELSE IF sig_match # {}
        THEN LET m == CHOOSE x \in sig_match : TRUE IN <<m[2], m[3]>>
        ELSE IF StartsWith(decompressed, RIFF)
        THEN IF Contains(Slice(decompressed, 0, 100), XMA2) \/ Contains(Slice(decompressed, 0, 100), FmtChunk)
             THEN <<"xma", ".xma">> ELSE <<"riff", ".riff">>
        ELSE IF Slice(decompressed, 0, 3) \in ScriptStarts \/ StartsWith(decompressed, ScriptNameWord)
        THEN <<"script", ".txt">>
        ELSE IF (StartsWith(decompressed, XmlDeclaration) \/ StartsWith(decompressed, <<60>>)) /\ CheckXmlContent(decompressed)
        THEN <<"xml", ".xml">>
        ELSE IF CheckTextContent(decompressed) THEN <<"text", ".txt">>
        ELSE <<"binary", ".bin">>

\* len(chunk) - len(dobj.unused_data)
ActualCompressedSize_TrialLength(chunk, consumed) == Len(chunk)

ActualCompressedSize(chunk, consumed) ==
    Len(chunk) - Len(Slice(chunk, consumed, Len(chunk)))

\* the loop of try_decompress over the candidate lengths
RECURSIVE TryCandidates(_, _, _)
TryCandidates(data, at, sizes) ==
    IF sizes = << >> THEN Reject
    ELSE LET chunk == Slice(data, at, Min(at + Head(sizes), Len(data)))
             inflated == Inflate(chunk)
             sniffed == DetermineContentType(inflated.val.data)
         IN  IF inflated.exc = "zlib.error" THEN TryCandidates(data, at, Tail(sizes))
             ELSE IF inflated.exc # "none" THEN Escaped(inflated.exc)
             ELSE IF Len(inflated.val.data) < MinOracleDecompressed
             THEN TryCandidates(data, at, Tail(sizes))
             ELSE [status |-> "verdict", caught |-> FALSE,
                   content_type |-> sniffed[1], extension |-> sniffed[2],
                   compressed_size |-> ActualCompressedSize(chunk, inflated.val.consumed),
                   decompressed_size |-> Len(inflated.val.data),
                   decompressed_data |-> inflated.val.data]

ZlibTryDecompress(data, at, max_compressed_size) ==
    IF Len(data) < at + 10 THEN Reject
    ELSE IF Slice(data, at, at + 2) \notin {ZLIB_LOW, ZLIB_DEFAULT, ZLIB_BEST} THEN Reject
    ELSE TryCandidates(data, at, Append(TrySizes, max_compressed_size))

(* ---- DDSParser ---- *)
DdsMagic == <<68, 68, 83, 32>>
DdsHeaderLength == 128
DdsHeaderSizeField == 124
DdsMaxDimension == 16384
DdsMaxMipLevels == 16
DXT1 == <<68, 88, 84, 49>>
DXT2 == <<68, 88, 84, 50>>
DXT3 == <<68, 88, 84, 51>>
DXT4 == <<68, 88, 84, 52>>
DXT5 == <<68, 88, 84, 53>>
ATI1 == <<65, 84, 73, 49>>
ATI2 == <<65, 84, 73, 50>>
BC4U == <<66, 67, 52, 85>>
BC4S == <<66, 67, 52, 83>>
BC5U == <<66, 67, 53, 85>>
BC5S == <<66, 67, 53, 83>>
BlockCompressed == {DXT1, DXT2, DXT3, DXT4, DXT5, ATI1, BC4U, BC4S, ATI2, BC5U, BC5S}

\* fourcc.decode("ascii", errors="ignore").strip("\x00")
FourccStr(fourcc) ==
    LET text == DecodeAsciiIgnore(fourcc)
        keep == {i \in 1..Len(text) : text[i] # 0}
    IN  IF keep = {} THEN << >>
        ELSE SubSeq(text, CHOOSE i \in keep : \A j \in keep : i <= j,
                          CHOOSE i \in keep : \A j \in keep : j <= i)

GetBytesPerBlock(fourcc_str) ==
    IF fourcc_str = DXT1 THEN 8
    ELSE IF fourcc_str \in {DXT2, DXT3, DXT4, DXT5} THEN 16
    ELSE IF fourcc_str \in {ATI1, BC4U, BC4S} THEN 8
    ELSE IF fourcc_str \in {ATI2, BC5U, BC5S} THEN 16
    ELSE 16

\* the loop of _calculate_mipmap_size over the levels 1 .. min(count, 16) - 1
RECURSIVE MipChain(_, _, _, _)
MipChain(mip_width, mip_height, levels, bytes_per_block) ==
    IF levels <= 0 THEN 0
    ELSE LET w == Max(1, mip_width \div 2)
             h == Max(1, mip_height \div 2)
         IN  Max(1, (w + 3) \div 4) * Max(1, (h + 3) \div 4) * bytes_per_block
                + MipChain(w, h, levels - 1, bytes_per_block)

CalculateMipmapSize(width, height, mipmap_count, bytes_per_block) ==
    ((width + 3) \div 4) * ((height + 3) \div 4) * bytes_per_block
        + (IF mipmap_count > 1
           THEN MipChain(width, height, Min(mipmap_count, DdsMaxMipLevels) - 1, bytes_per_block)
           ELSE 0)

\* the loop of _handle_uncompressed
RECURSIVE UncompressedChain(_, _, _)
UncompressedChain(mip_size, levels, bytes_per_block) ==
    IF levels <= 0 THEN 0
    ELSE Max(mip_size \div 4, bytes_per_block)
            + UncompressedChain(mip_size \div 4, levels - 1, bytes_per_block)

HandleUncompressed(height, pitch, mipmap_count, bytes_per_block) ==
    pitch * height
        + (IF mipmap_count > 1
           THEN UncompressedChain(pitch * height, Min(mipmap_count, DdsMaxMipLevels) - 1, bytes_per_block)
           ELSE 0)

\* the little-endian reading is given up for the big-endian one
NeedsBigEndian_Never(height, width, header_size) == FALSE

NeedsBigEndian(height, width, header_size) ==
    height > DdsMaxDimension \/ width > DdsMaxDimension \/ header_size # DdsHeaderSizeField

DdsVerdict(width, height, mipmap_count, pitch, fourcc_str, big) ==
    LET bytes_per_block == GetBytesPerBlock(fourcc_str)
        estimated_size ==
            IF fourcc_str \notin BlockCompressed /\ pitch > 0
            THEN HandleUncompressed(height, pitch, mipmap_count, bytes_per_block)
            ELSE CalculateMipmapSize(width, height, mipmap_count, bytes_per_block)
    IN  [status |-> "verdict", caught |-> FALSE, width |-> width, height |-> height,
         mipmap_count |-> mipmap_count, fourcc |-> fourcc_str,
         endianness |-> IF big THEN "big" ELSE "little",
         estimated_size |-> estimated_size + DdsHeaderLength, pitch |-> pitch,
         is_xbox360 |-> big]

DdsTryBody(header_data) ==
    LET header_size == read_uint32_le(header_data, 4)
        height == read_uint32_le(header_data, 12)
        width == read_uint32_le(header_data, 16)
        pitch == read_uint32_le(header_data, 20)
        mipmap_count == read_uint32_le(header_data, 28)
        big == NeedsBigEndian(height.val, width.val, header_size.val)
        h == IF big THEN read_uint32_be(header_data, 12) ELSE height
        w == IF big THEN read_uint32_be(header_data, 16) ELSE width
        p == IF big THEN read_uint32_be(header_data, 20) ELSE pitch
        m == IF big THEN read_uint32_be(header_data, 28) ELSE mipmap_count
    IN  IF Slice(header_data, 0, 4) # DdsMagic THEN Value(Reject)
        ELSE IF header_size.exc # "none" \/ height.exc # "none" \/ width.exc # "none"
        THEN Raise("struct.error")
        ELSE IF h.exc # "none" \/ w.exc # "none" \/ p.exc # "none" \/ m.exc # "none"
        THEN Raise("struct.error")
        ELSE IF h.val = 0 \/ w.val = 0 \/ h.val > DdsMaxDimension \/ w.val > DdsMaxDimension
        THEN Value(Reject)
        ELSE Value(DdsVerdict(w.val, h.val, m.val, p.val,
                              FourccStr(Slice(header_data, 84, 88)), big))

DdsParseHeader(data, at) ==
    IF Len(data) < at + DdsHeaderLength THEN Reject
    ELSE TryExcept(DdsTryBody(Slice(data, at, at + DdsHeaderLength)), StructOrIndexError)

(***************************************************************************)
(* NIFParser.parse_header: the oracle of the scene-graph family.           *)
(***************************************************************************)
\* data.find(b"\x00", start, stop)
FindNull(data, start, stop) ==
    LET at == {i \in start..(Min(stop, Len(data)) - 1) : data[i + 1] = 0}
    IN  IF at = {} THEN -1 ELSE CHOOSE i \in at : \A j \in at : i <= j

\* the scan for a block count: the first 32-bit little-endian value in
\* 1..10000 at parse_offset, parse_offset + 4, ...; 50000 without one
NifEstimate(data, at, parse_offset, version_string) ==
    LET tests == {t \in parse_offset..(Min(parse_offset + 60, Len(data) - 4) - 1) :
                     /\ (t - parse_offset) % 4 = 0
                     /\ read_uint32_le(data, t).val >= 1
                     /\ read_uint32_le(data, t).val <= 10000}
        first == CHOOSE t \in tests : \A u \in tests : t <= u
    IN  IF Contains(version_string, <<50, 48, 46>>) /\ Len(data) >= at + 100
           /\ tests # {}
        THEN Min(read_uint32_le(data, first).val * 500 + 1000, 20971520)
        ELSE 50000

NifParseHeader(data, at) ==
    LET null_pos == FindNull(data, at + 22, at + 22 + 40)
        version_string == DecodeAsciiIgnore(Slice(data, at + 22, null_pos))
    IN  IF Len(data) < at + 64 THEN Reject
        ELSE IF Slice(data, at, at + 20) # NIF_MAGIC THEN Reject
        ELSE IF null_pos = -1 THEN Reject
        ELSE [status |-> "verdict", caught |-> FALSE, format |-> "NIF",
              version |-> version_string,
              estimated_size |-> NifEstimate(data, at, null_pos + 1, version_string)]

\* the four bytes of a 32-bit field in either byte order
Uint32Bytes(v, big) ==
    LET le == <<v % 256, (v \div 256) % 256, (v \div 65536) % 256, v \div 16777216>>
    IN  IF big THEN <<le[4], le[3], le[2], le[1]>> ELSE le

Zeros(n) == [i \in 1..n |-> 0]

\* the 128 header bytes of a logical header: the numeric fields in the byte
\* order asked for, the magic and the FourCC as the characters they are
DdsEncode(hd, big) ==
    DdsMagic \o Uint32Bytes(hd.header_size, big) \o Zeros(4)
        \o Uint32Bytes(hd.height, big) \o Uint32Bytes(hd.width, big)
        \o Uint32Bytes(hd.pitch, big) \o Zeros(4)
        \o Uint32Bytes(hd.mipmap_count, big) \o Zeros(52) \o hd.fourcc \o Zeros(40)

\* The part of the registry the model scans for, in the registry's order.
\* folder is the descriptor's "folder" entry, "" where it has none.
FILE_SIGNATURES ==
    [dds |-> [magic |-> "DDS ", magic_len |-> 4, extension |-> ".dds",
              min_size |-> DdsMinSize, max_size |-> DdsMaxSize,
              folder |-> "textures"],
     script_scn |-> [magic |-> "scn ", magic_len |-> 4, extension |-> ".txt",
              min_size |-> ScriptMinSize, max_size |-> ScriptMaxSize,
              folder |-> "scripts"],
     zlib_default |-> [magic |-> "78 9C", magic_len |-> 2, extension |-> ".zlib",
              min_size |-> ZlibMinSize, max_size |-> ZlibMaxSize,
              folder |-> ""],
     nif |-> [magic |-> "Gamebryo File Format", magic_len |-> 20,
              extension |-> ".nif", min_size |-> 100, max_size |-> 20971520,
              folder |-> ""],
     kf |-> [magic |-> "Gamebryo File Format", magic_len |-> 20,
              extension |-> ".kf", min_size |-> 100, max_size |-> 10485760,
              folder |-> ""],
     egm |-> [magic |-> "Gamebryo File Format", magic_len |-> 20,
              extension |-> ".egm", min_size |-> 100, max_size |-> 5242880,
              folder |-> ""],
     egt |-> [magic |-> "Gamebryo File Format", magic_len |-> 20,
              extension |-> ".egt", min_size |-> 100, max_size |-> 1048576,
              folder |-> ""]]

SigOrder == <<"dds", "script_scn", "zlib_default">>
FileTypes == DOMAIN FILE_SIGNATURES

\* the scene-graph family, in the registry's order: four types with the
\* same magic bytes
FamilyOrder == <<"nif", "kf", "egm", "egt">>

\* _get_signatures_to_search: the registry entries whose key is among the
\* requested file_types, in the registry's order.  A capture scanned for
\* the family carries the request as file_types; the others are scanned
\* for the types of SigOrder.
SignaturesToSearch ==
    IF "file_types" \in DOMAIN dump
    THEN SelectSeq(FamilyOrder, LAMBDA t : t \in dump.file_types)
    ELSE SigOrder

(***************************************************************************)
(* Captures.  A hit is a place of the capture that starts with magic       *)
(* bytes.  kind/size/flag/name/dsize/ctype/hint are what the oracle of the *)
(* type returns on the bytes found there (kind "reject": None); body       *)
(* identifies the bytes themselves.                                        *)
(***************************************************************************)
Hit(off, magic, kind, size, flag, name, body, dsize, ctype, hint) ==
    [off |-> off, magic |-> magic, kind |-> kind, size |-> size, flag |-> flag,
     name |-> name, body |-> body, dsize |-> dsize, ctype |-> ctype,
     hint |-> hint]

CaptureSize == 12000

\* the 4x4 texture of the pool as a logical header, and the size the texture
\* oracle gives for the 128 bytes that encode a header (136 for this one)
SmallTexture == [header_size |-> DdsHeaderSizeField, height |-> 4, width |-> 4, pitch |-> 0, mipmap_count |-> 1, fourcc |-> DXT1]
OracleSize(hd, big) == DdsParseHeader(DdsEncode(hd, big), 0).estimated_size

HitPool ==
    { Hit(1500, "DDS ", "size", 268435584, TRUE, "", 11, 0, "", ""),
      Hit(4000, "DDS ", "reject", 0, FALSE, "", 13, 0, "", ""),
      Hit(7200, "DDS ", "size", 136, FALSE, "", 15, 0, "", ""),
      Hit(9998, "DDS ", "size", 136, FALSE, "", 14, 0, "", ""),
      Hit(1300, "scn ", "script", 44, TRUE, "A", 21, 0, "", ""),
      Hit(2100, "scn ", "script", 30, TRUE, "A", 20, 0, "", ""),
      Hit(2500, "scn ", "script", 12, FALSE, "B", 22, 0, "", ""),
      Hit(6500, "78 9C", "zlib", 286, FALSE, "", 30, 1024, "binary", "") }

\* The window sizes tried: one that cuts the capture into three windows and
\* one larger than the capture.
ChunkSizes == {5000, 12500}

Captures ==
    { [size |-> CaptureSize, hits |-> hs] :
        hs \in { s \in SUBSET HitPool : Cardinality(s) <= MaxHits } }

ZeroStats == [t \in FileTypes |-> 0]

(***************************************************************************)
(* The manifest and the files on disk.                                     *)
(***************************************************************************)
CarveEntry(file_type, off, size_in_dump, size_output, filename, is_compressed, content_type) ==
    [file_type |-> file_type, offset |-> off, size_in_dump |-> size_in_dump,
     size_output |-> size_output, filename |-> filename,
     is_compressed |-> is_compressed, content_type |-> content_type]

EmptyDir == [p \in {} |-> 0]

Exists(files, path) == path \in DOMAIN files

WriteFile(files, path, data) == (path :> data) @@ files

\* f.seek(off); f.read(n): the bytes are identified by where they start and
\* how many were read; a read stops at the end of the capture.
ReadLen(size, off, n) == Max(0, Min(n, size - off))

ReadData(h, size, n) == [body |-> h.body, len |-> ReadLen(size, h.off, n)]

(***************************************************************************)
(* Searching one chunk (_search_signature_in_chunk).                       *)
(***************************************************************************)
\* Window-local positions at which chunk.find can match the magic bytes of
\* type t: the occurrences all of whose bytes lie inside the chunk.
Occurrences(hits, c_off, c_len, t) ==
    { h.off - c_off : h \in { x \in hits :
          /\ x.magic = FILE_SIGNATURES[t].magic
          /\ x.off >= c_off
          /\ x.off + FILE_SIGNATURES[t].magic_len <= c_off + c_len } }

\* chunk.find(magic, search_pos): the first match at or after search_pos,
\* -1 when there is none.
Find(hits, c_off, c_len, t, from) ==
    LET cand == { p \in Occurrences(hits, c_off, c_len, t) : p >= from }
    IN  IF cand = {} THEN 0 - 1
        ELSE CHOOSE p \in cand : \A q \in cand : p <= q

\* "Skip if we've already processed this (in overlap region)".
InOverlap(pos, c_off) == pos < OverlapSkip /\ c_off > 0

HitAt(hits, t, g) ==
    CHOOSE h \in hits : h.off = g /\ h.magic = FILE_SIGNATURES[t].magic

(***************************************************************************)
(* Size determination (_determine_file_size and its handlers).  A result   *)
(* is None (kind "none"), a size with its flags (kind "size") or the dict  *)
(* of a decompressed stream (kind "dict").                                 *)
(***************************************************************************)
NoneResult ==
    [kind |-> "none", file_size |-> 0, is_xbox360 |-> FALSE,
     script_name |-> "", is_complete |-> TRUE]

SizeResult(n, x360, name, complete) ==
    [kind |-> "size", file_size |-> n, is_xbox360 |-> x360,
     script_name |-> name, is_complete |-> complete]

\* HandleDdsSize without the clamp to max_size.
HandleDdsSize_NoClamp(h, max_size) ==
    IF h.kind = "size"
    THEN SizeResult(h.size, h.flag, "", TRUE)
    ELSE NoneResult

HandleDdsSize(h, max_size) ==
    IF h.kind = "size"
    THEN SizeResult(Min(h.size, max_size), h.flag, "", TRUE)
    ELSE NoneResult

HandleScriptSize(h, max_size) ==
    IF h.kind = "script"
    THEN SizeResult(Min(h.size, max_size), FALSE, h.name, h.flag)
    ELSE NoneResult

HandleZlibSize(h) ==
    IF h.kind = "zlib" /\ h.dsize > ZlibMinDecompressed
    THEN [NoneResult EXCEPT !.kind = "dict", !.file_size = h.size]
    ELSE NoneResult

\* _handle_estimated_size: min(estimated_size, max_size), no flags
HandleEstimatedSize(h, max_size) ==
    IF h.kind = "size"
    THEN SizeResult(Min(h.size, max_size), FALSE, "", TRUE)
    ELSE NoneResult

DetermineFileSize(h, t) ==
    CASE t = "dds" -> HandleDdsSize(h, FILE_SIGNATURES[t].max_size)
      [] t \in {"nif", "kf", "egm", "egt"} ->
           HandleEstimatedSize(h, FILE_SIGNATURES[t].max_size)
      [] t = "script_scn" -> HandleScriptSize(h, FILE_SIGNATURES[t].max_size)
      [] t = "zlib_default" -> HandleZlibSize(h)

\* The range check without its lower bound.
SizeAccepted_NoMin(file_size, min_size, max_size) ==
    ~(file_size > max_size)

\* The range check of _extract_file.
SizeAccepted(file_size, min_size, max_size) ==
    ~(file_size < min_size \/ file_size > max_size)

(***************************************************************************)
(* File names.                                                             *)
(***************************************************************************)
\* The digits of f"{n:04d}" (base 10, width 4) and f"{n:08X}" (base 16,
\* width 8): zero-padded to the width, longer when n needs more digits.
HexDigits ==
    <<"0", "1", "2", "3", "4", "5", "6", "7", "8", "9", "A", "B", "C", "D",
      "E", "F">>

RECURSIVE Format(_, _, _)
Format(n, base, width) ==
    IF width <= 1 /\ n < base THEN HexDigits[n + 1]
    ELSE Format(n \div base, base, width - 1) \o HexDigits[(n % base) + 1]

\* The formatted offsets and counters that occur, computed once.  A scan
\* hands a hit to extraction at most twice, and a carver used again keeps
\* its counters.
\* the offset a probed candidate is taken to lie at in its capture
ProbeOffset == 256
\* where two blobs stored one after the other start, and the offsets of
\* the blobs (a 27-byte script and a 136-byte texture, in either order)
AdjacentStarts == {1000, 5100, 9862, 9971}
AdjacentOffsets == {o + d : o \in AdjacentStarts, d \in {0, 27, 136}}
OffsetDigits == [o \in {x.off : x \in HitPool} \cup {ProbeOffset} \cup AdjacentOffsets |-> Format(o, 16, 8)]
CounterDigits == [n \in 0..(2 * MaxHits * MaxScans) |-> Format(n, 10, 4)]

\* _generate_filename.  A file name is kept as <<base, ext>>, the two parts
\* os.path.splitext gives back.
GenerateFilename(t, extension, is_xbox360, script_name, is_complete, off, counter) ==
    LET ext == IF t = "dds" /\ is_xbox360 THEN ".ddx" ELSE extension
    IN  IF script_name # "" /\ t \in {"script_scn", "script_sn"}
        THEN IF ~is_complete
             THEN <<script_name \o "_INCOMPLETE", ext>>
             ELSE <<script_name, ext>>
        ELSE <<t \o "_" \o CounterDigits[counter] \o "_off_"
                 \o OffsetDigits[off], ext>>

\* base, ext = os.path.splitext(filename); f"{base}_off_{offset:08X}{ext}"
OffsetSuffixed(filename, off) ==
    <<filename[1] \o "_off_" \o OffsetDigits[off], filename[2]>>

\* The extension _determine_content_type gives a content type.
ZlibExtension(ctype) ==
    CASE ctype \in {"script", "text"} -> ".txt"
      [] ctype = "binary" -> ".bin"
      [] ctype = "data_chunk" -> ".data"
      [] OTHER -> "." \o ctype

\* The file name _save_zlib_stream generates.
ZlibFilename(h, count, off) ==
    IF h.hint # ""
    THEN <<h.hint \o "_" \o CounterDigits[count], ZlibExtension(h.ctype)>>
    ELSE <<h.ctype \o "_" \o CounterDigits[count] \o "_off_"
             \o OffsetDigits[off], ZlibExtension(h.ctype)>>

\* os.path.join(dir, filename), relative to the output directory.
Join(dir, filename) == <<dir>> \o filename


(***************************************************************************)
(* Extraction of one candidate.  Both operators return the carver's new    *)
(* stats, manifest and files together with what happened.  fault names the *)
(* failure the environment injects into this call: "none", "io_read" (an   *)
(* OSError of the seek/read of the capture), "io_write" (an OSError of     *)
(* makedirs/open/write) or "other" (an exception that is not an OSError,   *)
(* raised while the candidate is read and sized).                          *)
(***************************************************************************)
Outcome(st, mf, files, outcome, size, data, existed, same, path0, path) ==
    [stats |-> st, manifest |-> mf, fs |-> files, outcome |-> outcome,
     size |-> size, data |-> data, existed |-> existed, same |-> same,
     path0 |-> path0, path |-> path]

NoData == [body |-> 0, len |-> 0]

SaveZlibStream(h, t, fault, st, mf, files) ==
    LET st1 == [st EXCEPT ![t] = @ + 1]
        count == st1[t]
        filename == ZlibFilename(h, count, h.off)
        subdir == "zlib_" \o h.ctype
        path0 == Join(subdir, filename)
        existed == Exists(files, path0)
        path == IF existed
                THEN Join(subdir, OffsetSuffixed(filename, h.off))
                ELSE path0
        data == [body |-> h.body, len |-> h.dsize]
    IN  IF fault = "io_write"
        THEN Outcome(st1, mf, files, "io_write_fail", h.size, data, existed,
                     FALSE, path0, path)
        ELSE Outcome(st1,
                     Append(mf, CarveEntry(t, h.off, h.size, h.dsize, path,
                                           TRUE, h.ctype)),
                     WriteFile(files, path, data), "stream", h.size, data,
                     existed, FALSE, path0, path)

ExtractFile(h, t, fault, st, mf, files, size) ==
    LET sig == FILE_SIGNATURES[t]
        res == DetermineFileSize(h, t)
        file_size == res.file_size
        file_data == ReadData(h, size, file_size)
        st1 == [st EXCEPT ![t] = @ + 1]
        filename == GenerateFilename(t, sig.extension, res.is_xbox360,
                        res.script_name, res.is_complete, h.off, st1[t])
        path0 == Join(t, filename)
        existed == Exists(files, path0)
        same == existed /\ files[path0] = file_data
        path == IF existed
                THEN Join(t, OffsetSuffixed(filename, h.off))
                ELSE path0
    IN  CASE fault = "io_read" ->
               Outcome(st, mf, files, "io_read_fail", 0, NoData, FALSE, FALSE,
                       <<>>, <<>>)
          [] fault = "other" ->
               Outcome(st, mf, files, "raised", 0, NoData, FALSE, FALSE,
                       <<>>, <<>>)
          [] OTHER ->
               IF res.kind = "none"
               THEN Outcome(st, mf, files, "reject", 0, NoData, FALSE, FALSE,
                            <<>>, <<>>)
               ELSE IF res.kind = "dict"
               THEN SaveZlibStream(h, t, fault, st, mf, files)
               ELSE IF ~SizeAccepted(file_size, sig.min_size, sig.max_size)
               THEN Outcome(st, mf, files, "discard", file_size, NoData, FALSE,
                            FALSE, <<>>, <<>>)
               ELSE IF same
               THEN Outcome(st, mf, files, "duplicate", file_size,
                            file_data, existed, same, path0, path0)
               ELSE IF fault = "io_write"
               THEN Outcome(st1, mf, files, "io_write_fail", file_size,
                            file_data, existed, same, path0, path)
               ELSE Outcome(st1,
                            Append(mf, CarveEntry(t, h.off, file_size,
                                       file_size, path, FALSE, "")),
                            WriteFile(files, path, file_data), "carved",
                            file_size, file_data, existed, same, path0,
                            path)

(***************************************************************************)
(* _save_manifest: the entries and their summary.                          *)
(***************************************************************************)
RECURSIVE SumField(_, _)
SumField(entries, field) ==
    IF entries = <<>> THEN 0
    ELSE entries[1][field] + SumField(Tail(entries), field)

OfType(entries, t) == SelectSeq(entries, LAMBDA e : e.file_type = t)

\* one turn of the loop that builds by_type: a type seen for the first
\* time gets a zero row, then the entry is added to the row of its type
AddToByType_NoOutput(by_type, entry) ==
    [t \in DOMAIN by_type \cup {entry.file_type} |->
        LET row == IF t \in DOMAIN by_type THEN by_type[t]
                   ELSE [count |-> 0, bytes_in_dump |-> 0, bytes_output |-> 0]
        IN  IF t = entry.file_type
            THEN [count |-> row.count + 1,
                  bytes_in_dump |-> row.bytes_in_dump + entry.size_in_dump,
                  bytes_output |-> row.bytes_output]
            ELSE row]

AddToByType(by_type, entry) ==
    [t \in DOMAIN by_type \cup {entry.file_type} |->
        LET row == IF t \in DOMAIN by_type THEN by_type[t]
                   ELSE [count |-> 0, bytes_in_dump |-> 0, bytes_output |-> 0]
        IN  IF t = entry.file_type
            THEN [count |-> row.count + 1,
                  bytes_in_dump |-> row.bytes_in_dump + entry.size_in_dump,
                  bytes_output |-> row.bytes_output + entry.size_output]
            ELSE row]

RECURSIVE BuildByType(_, _)
BuildByType(entries, by_type) ==
    IF entries = <<>> THEN by_type
    ELSE BuildByType(Tail(entries), AddToByType(by_type, Head(entries)))

ManifestData(entries) ==
    [entries |-> entries,
     summary |->
       [total_files |-> Len(entries),
        total_bytes_in_dump |-> SumField(entries, "size_in_dump"),
        total_bytes_output |-> SumField(entries, "size_output"),
        by_type |-> BuildByType(entries, [t \in {} |-> 0])]]

(***************************************************************************)
(* The format oracles applied to byte buffers.  A probe is one call of an  *)
(* oracle: the oracle, the buffer, the offset in the buffer the call is    *)
(* made at, and what the buffer was built from.                            *)
(***************************************************************************)
MaxPad == 1

Probe(oracle, data, off, about) == [oracle |-> oracle, data |-> data, offset |-> off, about |-> about]
NoAbout == [off |-> 0 - 1]
NoProbe == Probe("none", << >>, 0, NoAbout)
Pending == [status |-> "pending", caught |-> FALSE]

Prefixes(s) == {SubSeq(s, 1, n) : n \in 0..Len(s)}
Padded(s, k) == [i \in 1..k |-> 170] \o s


NoManifestFile == [exists |-> FALSE, data |-> ManifestData(<<>>)]

NoExtract ==
    [type |-> "", off |-> 0 - 1, outcome |-> "none", oracle |-> 0, size |-> 0,
     data |-> NoData, existed |-> FALSE, path |-> <<>>, path0 |-> <<>>]

\* A new carver on an empty output directory, before its first carve_dump.
Init ==
    /\ dump \in Captures
    /\ chunk_size \in ChunkSizes
    /\ max_files_per_type \in {1, MaxFilesCap}
    /\ stats = ZeroStats
    /\ manifest = <<>>
    /\ fs = EmptyDir
    /\ manifest_file = NoManifestFile
    /\ pc = "idle"
    /\ offset = 0
    /\ chunk_offset = 0
    /\ chunk_len = 0
    /\ sig_idx = 1
    /\ search_pos = 0
    /\ win = 0
    /\ scan_no = 0
    /\ fault_budget = MaxFaults
    /\ handed = {}
    /\ skipped = {}
    /\ searched = {}
    /\ last = NoExtract
    /\ scans = <<>>
    /\ probe = NoProbe
    /\ result = Pending


(***************************************************************************)
(* MemoryCarver.__init__: a new carver.  It either scans again with the    *)
(* same window size into the output directory as it stands, or scans with  *)
(* another window size into an empty output directory.                     *)
(***************************************************************************)
NewCarver ==
    /\ pc = "done"
    /\ scan_no < MaxScans
    /\ \E cs \in ChunkSizes, fresh_dir \in BOOLEAN :
         /\ fresh_dir <=> cs # chunk_size
         /\ chunk_size' = cs
         /\ fs' = IF fresh_dir THEN EmptyDir ELSE fs
         /\ manifest_file' = IF fresh_dir THEN NoManifestFile ELSE manifest_file
    /\ stats' = ZeroStats
    /\ manifest' = <<>>
    /\ pc' = "idle"
    /\ UNCHANGED <<probe, result, dump, max_files_per_type, offset, chunk_offset, chunk_len,
                   sig_idx, search_pos, win, scan_no, fault_budget, handed,
                   skipped, searched, last, scans>>

(***************************************************************************)
(* carve_dump up to the loop: the manifest is cleared, offset = 0.         *)
(***************************************************************************)
CarveDump ==
    /\ pc \in {"idle", "done"}
    /\ scan_no < MaxScans
    /\ manifest' = <<>>
    /\ offset' = 0
    /\ win' = 0
    /\ pc' = "while"
    /\ scan_no' = scan_no + 1
    /\ handed' = {}
    /\ skipped' = {}
    /\ searched' = {}
    /\ last' = NoExtract
    /\ scans' = Append(scans,
          [chunk_size |-> chunk_size, stats0 |-> stats, files0 |-> DOMAIN fs,
           budget0 |-> fault_budget, done |-> FALSE, manifest |-> <<>>,
           stats |-> stats, files |-> DOMAIN fs, faults |-> 0])
    /\ UNCHANGED <<probe, result, dump, chunk_size, max_files_per_type, stats, fs,
                   manifest_file, chunk_offset, chunk_len, sig_idx,
                   search_pos, fault_budget>>

\* while offset < file_size: seek, read the chunk, enter _process_chunk.
ReadChunk ==
    /\ pc = "while"
    /\ offset < dump.size
    /\ chunk_offset' = Max(0, offset - overlap_size)
    /\ chunk_len' = ReadLen(dump.size, Max(0, offset - overlap_size),
                            chunk_size + overlap_size)
    /\ chunk_len' > 0
    /\ sig_idx' = 1
    /\ pc' = "sig"
    /\ UNCHANGED <<probe, result, dump, chunk_size, max_files_per_type, stats, manifest, fs,
                   manifest_file, offset, search_pos, win, scan_no,
                   fault_budget, handed, skipped, searched, last, scans>>

\* _process_chunk: a signature whose counter reached the cap is passed over.
SkipCapped ==
    /\ pc = "sig"
    /\ sig_idx <= Len(SignaturesToSearch)
    /\ stats[SignaturesToSearch[sig_idx]] >= max_files_per_type
    /\ sig_idx' = sig_idx + 1
    /\ UNCHANGED <<probe, result, dump, chunk_size, max_files_per_type, stats, manifest, fs,
                   manifest_file, pc, offset, chunk_offset, chunk_len,
                   search_pos, win, scan_no, fault_budget, handed, skipped,
                   searched, last, scans>>

\* The loop of _search_signature_in_chunk is at its head: entered from
\* _process_chunk for a signature below the cap, or after a match.
Searching ==
    \/ pc = "search"
    \/ /\ pc = "sig"
       /\ sig_idx <= Len(SignaturesToSearch)
       /\ stats[SignaturesToSearch[sig_idx]] < max_files_per_type

\* search_pos = 0 on entry.
SearchFrom == IF pc = "search" THEN search_pos ELSE 0

SearchStarted ==
    searched \cup {[type |-> SignaturesToSearch[sig_idx], win |-> win]}

\* _search_signature_in_chunk: the loop ends (search_pos at the end of the
\* chunk, or no further match).
SearchEnd ==
    /\ Searching
    /\ \/ SearchFrom >= chunk_len
       \/ Find(dump.hits, chunk_offset, chunk_len,
               SignaturesToSearch[sig_idx], SearchFrom) = 0 - 1
    /\ sig_idx' = sig_idx + 1
    /\ pc' = "sig"
    /\ search_pos' = 0
    /\ searched' = SearchStarted
    /\ UNCHANGED <<probe, result, dump, chunk_size, max_files_per_type, stats, manifest, fs,
                   manifest_file, offset, chunk_offset, chunk_len, win,
                   scan_no, fault_budget, handed, skipped, last, scans>>

\* the cursor left where the skipped match is
AfterSkip_Stay(pos) == pos

\* search_pos = pos + 1 after a match that is skipped
AfterSkip(pos) == pos + 1

\* _search_signature_in_chunk: a match in the overlap region is skipped.
SkipOverlap ==
    /\ Searching
    /\ SearchFrom < chunk_len
    /\ LET t == SignaturesToSearch[sig_idx]
           pos == Find(dump.hits, chunk_offset, chunk_len, t, SearchFrom)
       IN  /\ pos # 0 - 1
           /\ InOverlap(pos, chunk_offset)
           /\ search_pos' = AfterSkip(pos)
           /\ skipped' = skipped \cup
                 {[type |-> t, off |-> chunk_offset + pos, win |-> win]}
    /\ pc' = "search"
    /\ searched' = SearchStarted
    /\ UNCHANGED <<probe, result, dump, chunk_size, max_files_per_type, stats, manifest, fs,
                   manifest_file, offset, chunk_offset, chunk_len, sig_idx,
                   win, scan_no, fault_budget, handed, last, scans>>

\* The failures a call of _extract_file may meet: an IOError/OSError while
\* reading or while writing, or an exception of another class.
FaultChoices ==
    IF fault_budget > 0 THEN {"none", "io_read", "io_write", "other"}
    ELSE {"none"}

\* _search_signature_in_chunk: a match outside the overlap region is handed
\* to _extract_file.  An exception that _extract_file does not catch ends
\* the search of this signature in this chunk (caught in _process_chunk).
ExtractHit ==
    /\ Searching
    /\ SearchFrom < chunk_len
    /\ LET t == SignaturesToSearch[sig_idx]
           pos == Find(dump.hits, chunk_offset, chunk_len, t, SearchFrom)
           h == HitAt(dump.hits, t, chunk_offset + pos)
       IN  /\ pos # 0 - 1
           /\ ~InOverlap(pos, chunk_offset)
           /\ \E fault \in FaultChoices :
                LET r == ExtractFile(h, t, fault, stats, manifest, fs, dump.size)
                IN  /\ fault = "io_write" => r.outcome = "io_write_fail"
                    /\ stats' = r.stats
                    /\ manifest' = r.manifest
                    /\ fs' = r.fs
                    /\ fault_budget' = IF fault = "none" THEN fault_budget
                                       ELSE fault_budget - 1
                    /\ last' = [type |-> t, off |-> h.off,
                                outcome |-> r.outcome, oracle |-> h.size,
                                size |-> r.size, data |-> r.data,
                                existed |-> r.existed,
                                path |-> r.path, path0 |-> r.path0]
                    /\ IF r.outcome = "raised"
                       THEN /\ sig_idx' = sig_idx + 1
                            /\ pc' = "sig"
                            /\ search_pos' = 0
                       ELSE /\ search_pos' = pos + FILE_SIGNATURES[t].magic_len
                            /\ pc' = "search"
                            /\ UNCHANGED sig_idx
           /\ handed' = handed \cup
                 {[type |-> t, off |-> chunk_offset + pos, win |-> win]}
    /\ searched' = SearchStarted
    /\ UNCHANGED <<probe, result, dump, chunk_size, max_files_per_type, manifest_file,
                   offset, chunk_offset, chunk_len, win, scan_no, skipped,
                   scans>>

\* carve_dump: offset += self.chunk_size after _process_chunk returned.
NextChunk ==
    /\ pc = "sig"
    /\ sig_idx > Len(SignaturesToSearch)
    /\ offset' = offset + chunk_size
    /\ win' = win + 1
    /\ pc' = "while"
    /\ UNCHANGED <<probe, result, dump, chunk_size, max_files_per_type, stats, manifest, fs,
                   manifest_file, chunk_offset, chunk_len, sig_idx,
                   search_pos, scan_no, fault_budget, handed, skipped,
                   searched, last, scans>>

\* carve_dump is interrupted between two windows (KeyboardInterrupt at the
\* head of the loop): the exception leaves carve_dump through the with and
\* try/finally blocks, which only close the file and the progress bar, and
\* ends the run in main.
Interrupt ==
    /\ pc = "while"
    /\ win > 0
    /\ offset < dump.size
    /\ pc' = "interrupted"
    /\ UNCHANGED <<probe, result, dump, chunk_size, max_files_per_type, stats, manifest, fs,
                   manifest_file, offset, chunk_offset, chunk_len, sig_idx,
                   search_pos, win, scan_no, fault_budget, handed, skipped,
                   searched, last, scans>>

\* carve_dump: the loop is left and _save_manifest writes the manifest.
SaveManifest ==
    /\ pc = "while"
    /\ offset >= dump.size
    /\ manifest_file' = [exists |-> TRUE, data |-> ManifestData(manifest)]
    /\ pc' = "done"
    /\ scans' = [scans EXCEPT ![Len(scans)] =
          [@ EXCEPT !.done = TRUE, !.manifest = manifest, !.stats = stats,
                    !.files = DOMAIN fs,
                    !.faults = scans[Len(scans)].budget0 - fault_budget]]
    /\ UNCHANGED <<probe, result, dump, chunk_size, max_files_per_type, stats, manifest, fs,
                   offset, chunk_offset, chunk_len, sig_idx, search_pos, win,
                   scan_no, fault_budget, handed, skipped, searched, last>>

Next ==
    \/ NewCarver
    \/ CarveDump
    \/ ReadChunk
    \/ SkipCapped
    \/ SearchEnd
    \/ SkipOverlap
    \/ ExtractHit
    \/ NextChunk
    \/ Interrupt
    \/ SaveManifest

Spec == Init /\ [][Next]_vars

TypeOK ==
    /\ pc \in {"idle", "while", "sig", "search", "done", "interrupted", "oracle", "extracted"}
    /\ \A t \in FileTypes : stats[t] \in Nat
    /\ scan_no \in 0..MaxScans


(***************************************************************************)
(* Vocabulary of the properties.                                           *)
(***************************************************************************)
\* The step is one call of _extract_file.
Extracted == handed' # handed /\ handed' # {}

\* The step injected no failure.
NoFaultStep == fault_budget' = fault_budget

\* No failure was injected since the running (or last) scan began.
NoFaultInScan == scan_no > 0 /\ scans[Len(scans)].budget0 = fault_budget

StreamTypes == {"zlib_default", "zlib_best"}

\* The chunk of window w for window size cs.
WindowStart(w, cs) == Max(0, w * cs - overlap_size)
WindowLen(w, cs, size) == ReadLen(size, WindowStart(w, cs), cs + overlap_size)

\* Scan i of the behaviour ran to its end, without an injected failure, by a
\* carver with zero counters, into an empty output directory.
FreshScan(i) ==
    /\ scans[i].done
    /\ scans[i].faults = 0
    /\ scans[i].files0 = {}
    /\ scans[i].stats0 = ZeroStats

\* The logical window starts and ends of window size cs, the start and the
\* end of the capture included.
Boundaries(cs, size) == { k * cs : k \in 0..((size \div cs) + 1) }

FarFromBoundaries(e, cs, size) ==
    \A b \in Boundaries(cs, size) :
        \/ e.offset + e.size_in_dump + overlap_size < b
        \/ e.offset > b + overlap_size

FarRecords(entries, cs1, cs2, size) ==
    SelectSeq(entries, LAMBDA e : /\ FarFromBoundaries(e, cs1, size)
                                  /\ FarFromBoundaries(e, cs2, size))

(***************************************************************************)
(* C1.  No hit is lost at a window boundary: whenever a hit is skipped     *)
(* because its window-local position is below the overlap, in a window     *)
(* after the first, the same absolute offset was handed to extraction      *)
(* while the previous window was processed.  (Stated for scans in which no *)
(* failure was injected.)                                                  *)
(***************************************************************************)
C1_NoHitLostAtBoundary ==
    NoFaultInScan =>
        \A s \in skipped :
            \E h \in handed :
                h.type = s.type /\ h.off = s.off /\ h.win = s.win - 1

(***************************************************************************)
(* C2.  During one scan no absolute offset is handed to extraction more    *)
(* than once for the same format identifier: a hit seen in two adjacent    *)
(* windows is processed in exactly one of them.                            *)
(***************************************************************************)
C2_HandedAtMostOnce ==
    \A a \in handed : \A b \in handed :
        (a.type = b.type /\ a.off = b.off) => a.win = b.win

(***************************************************************************)
(* C3.  Window-size independence: two scans of the capture with different  *)
(* window sizes (same types, same cap, fresh carver, empty output          *)
(* directory) yield the same ordered records for the candidates whose      *)
(* extent lies more than one overlap-width away from every window boundary *)
(* of either window size.  (Stated for pairs of scans in which no counter  *)
(* reached the cap.)                                                       *)
(***************************************************************************)
CapNotReached(i) == \A t \in FileTypes : scans[i].stats[t] < max_files_per_type

C3_WindowSizeIndependence ==
    \A i \in 1..Len(scans) : \A j \in 1..Len(scans) :
        (FreshScan(i) /\ FreshScan(j) /\ CapNotReached(i) /\ CapNotReached(j)) =>
            FarRecords(scans[i].manifest, scans[i].chunk_size,
                       scans[j].chunk_size, dump.size)
              = FarRecords(scans[j].manifest, scans[i].chunk_size,
                           scans[j].chunk_size, dump.size)

(***************************************************************************)
(* C4.  Re-scan idempotence: a second scan of the capture with the same    *)
(* parameters into the output directory the first scan filled (which was   *)
(* empty before) ends with the manifest and the per-type counters of the   *)
(* first scan and creates no new output file.  (Stated for a second scan   *)
(* run by a newly created carver, as extract_dump creates one per run.)    *)
(***************************************************************************)
C4_RescanIdempotent ==
    \A i \in 1..(Len(scans) - 1) :
        ( /\ FreshScan(i)
          /\ scans[i + 1].done
          /\ scans[i + 1].faults = 0
          /\ scans[i + 1].stats0 = ZeroStats
          /\ scans[i + 1].chunk_size = scans[i].chunk_size
          /\ scans[i + 1].files0 = scans[i].files )
        => /\ scans[i + 1].manifest = scans[i].manifest
           /\ scans[i + 1].stats = scans[i].stats
           /\ scans[i + 1].files = scans[i].files

(***************************************************************************)
(* C5.  In every reachable state every manifest record that is not a       *)
(* decompressed-stream record has size_in_dump and size_output within      *)
(* [min_size, max_size] of the descriptor of its format identifier.        *)
(***************************************************************************)
C5_SizesWithinBounds ==
    \A i \in 1..Len(manifest) :
        LET e == manifest[i]
            sig == FILE_SIGNATURES[e.file_type]
        IN  ~e.is_compressed =>
              /\ sig.min_size <= e.size_in_dump
              /\ e.size_in_dump <= sig.max_size
              /\ sig.min_size <= e.size_output
              /\ e.size_output <= sig.max_size

\* A record of a candidate whose oracle size was above max_size is in the
\* manifest, next to the state in which an undersized candidate was dropped.
C5_Witness ==
    /\ \E i \in 1..Len(manifest) :
          /\ ~manifest[i].is_compressed
          /\ manifest[i].size_in_dump = FILE_SIGNATURES[manifest[i].file_type].max_size
    /\ last.outcome = "discard"

(***************************************************************************)
(* C6 as stated.  When the oracle's size for a candidate is outside        *)
(* [min_size, max_size] the candidate is discarded: no file is written, no *)
(* manifest record is appended, the per-type counter is unchanged.         *)
(***************************************************************************)
OracleSizeOutOfRange(h, t) ==
    h.size < FILE_SIGNATURES[t].min_size \/ h.size > FILE_SIGNATURES[t].max_size

C6_OutOfRangeDiscarded ==
    [][ ( /\ Extracted
          /\ last'.type \notin StreamTypes
          /\ OracleSizeOutOfRange(HitAt(dump.hits, last'.type, last'.off),
                                  last'.type) )
        => (fs' = fs /\ manifest' = manifest /\ stats' = stats) ]_vars

(***************************************************************************)
(* C6 amended.  The handler clamps the oracle's size to at most max_size.  *)
(* When the clamped size is below min_size (or the oracle rejects) the     *)
(* candidate is discarded: no file, no record, counter unchanged.  A       *)
(* record is appended only with the clamped size, which is then within     *)
(* [min_size, max_size], and the file written holds the bytes a read of    *)
(* that many bytes at the absolute offset returns (fewer only where the    *)
(* capture ends first).  A candidate whose oracle size is above max_size   *)
(* is carved with max_size unless an identical file exists or the call     *)
(* fails.                                                                  *)
(***************************************************************************)
C6_ClampedSizeDecides ==
    [][ ( Extracted /\ last'.type \notin StreamTypes ) =>
          LET t == last'.type
              h == HitAt(dump.hits, t, last'.off)
              sig == FILE_SIGNATURES[t]
              clamped == Min(h.size, sig.max_size)
          IN  /\ (h.kind = "reject" \/ clamped < sig.min_size)
                   => (fs' = fs /\ manifest' = manifest /\ stats' = stats)
              /\ manifest' # manifest =>
                   LET e == manifest'[Len(manifest')]
                   IN  /\ manifest' = Append(manifest, e)
                       /\ e.offset = h.off
                       /\ e.size_in_dump = clamped
                       /\ e.size_output = clamped
                       /\ sig.min_size <= clamped
                       /\ e.filename \in DOMAIN fs'
                       /\ fs'[e.filename] =
                            [body |-> h.body,
                             len |-> Min(clamped, dump.size - h.off)]
              /\ (h.kind # "reject" /\ h.size > sig.max_size /\ NoFaultStep)
                   => \/ /\ manifest' # manifest
                         /\ manifest'[Len(manifest')].size_in_dump = sig.max_size
                      \/ /\ last'.existed
                         /\ fs[last'.path0] = last'.data
                         /\ stats' = stats ]_vars

\* A candidate whose oracle size exceeds max_size has just been carved with
\* max_size, the read having stopped at the end of the capture.
C6_Witness ==
    /\ last.outcome = "carved"
    /\ last.oracle > FILE_SIGNATURES[last.type].max_size
    /\ manifest # <<>>
    /\ manifest[Len(manifest)].size_in_dump = FILE_SIGNATURES[last.type].max_size
    /\ last.data.len < last.size


(***************************************************************************)
(* C7.  Duplicate suppression for every recovered candidate, decompressed  *)
(* streams included: when a file with the generated name exists, identical *)
(* bytes make the candidate a skip (counter and manifest as before the     *)
(* candidate), different bytes make it a file under the offset-suffixed    *)
(* name, the existing file staying in place.                               *)
(***************************************************************************)
C7_DuplicateSuppression ==
    [][ (Extracted /\ NoFaultStep /\ last'.existed) =>
          IF fs[last'.path0] = last'.data
          THEN stats' = stats /\ manifest' = manifest /\ fs' = fs
          ELSE /\ last'.path = Join(Head(last'.path0),
                                    OffsetSuffixed(Tail(last'.path0), last'.off))
               /\ last'.path \in DOMAIN fs'
               /\ fs'[last'.path] = last'.data
               /\ last'.path0 \in DOMAIN fs'
               /\ fs'[last'.path0] = fs[last'.path0] ]_vars

(***************************************************************************)
(* C8.  In every reachable state the per-type counter of every format      *)
(* identifier is at most max_files_per_type.                               *)
(***************************************************************************)
C8_CounterCapped ==
    \A t \in FileTypes : stats[t] <= max_files_per_type

(***************************************************************************)
(* C9.  At the start of every scan (every call of carve_dump, a second     *)
(* call on the same carver included) the record list is empty and all      *)
(* per-type counters are zero.                                             *)
(***************************************************************************)
C9_ResetAtScanStart ==
    (pc = "while" /\ win = 0) => (manifest = <<>> /\ stats = ZeroStats)

(***************************************************************************)
(* C10.  A failure while one candidate is extracted, read or written never *)
(* keeps later candidates from being processed: when the scan has ended,   *)
(* every hit of a type whose search was started in a window, lying in that *)
(* window outside its overlap region, was handed to extraction in that     *)
(* window, and the manifest written holds the records accumulated.         *)
(***************************************************************************)
VisibleIn(h, t, w) ==
    LET c_off == WindowStart(w, chunk_size)
        c_len == WindowLen(w, chunk_size, dump.size)
    IN  /\ h.magic = FILE_SIGNATURES[t].magic
        /\ h.off >= c_off
        /\ h.off + FILE_SIGNATURES[t].magic_len <= c_off + c_len
        /\ ~InOverlap(h.off - c_off, c_off)

C10_FailureIsolated ==
    pc = "done" =>
        /\ \A s \in searched : \A h \in dump.hits :
              VisibleIn(h, s.type, s.win) =>
                 [type |-> s.type, off |-> h.off, win |-> s.win] \in handed
        /\ manifest_file = [exists |-> TRUE, data |-> ManifestData(manifest)]

(***************************************************************************)
(* C11.  When the scan is interrupted between two windows, the manifest    *)
(* file in the output directory exists and holds exactly the records       *)
(* accumulated in the windows processed before the interruption.           *)
(***************************************************************************)
C11_InterruptedManifestPersisted ==
    pc = "interrupted" =>
        manifest_file = [exists |-> TRUE, data |-> ManifestData(manifest)]

(***************************************************************************)
(* Buffers the oracles are probed with.                                    *)
(***************************************************************************)
\* RIFF/WAVE whose fmt chunk carries format tag 0x0165 (32 bytes)
XmaFmtChunk == <<82, 73, 70, 70, 40, 0, 0, 0, 87, 65, 86, 69, 102, 109, 116, 32, 18, 0, 0, 0, 101, 1, 2, 0, 0, 0, 0, 0, 0, 0, 0, 0>>

\* RIFF/WAVE with garbage in both size fields (24 bytes)
XmaGarbageSizes == <<82, 73, 70, 70, 240, 255, 255, 126, 87, 65, 86, 69, 100, 97, 116, 97, 240, 255, 255, 126, 0, 0, 0, 0>>

\* RIFF/WAVE with an odd-sized LIST chunk before the XMA2 chunk (33 bytes)
XmaSecondChunk == <<82, 73, 70, 70, 30, 0, 0, 0, 87, 65, 86, 69, 76, 73, 83, 84, 3, 0, 0, 0, 0, 0, 0, 0, 88, 77, 65, 50, 0, 0, 0, 0, 0>>

\* RIFF that is not WAVE (24 bytes)
RiffAvi == <<82, 73, 70, 70, 4, 0, 0, 0, 65, 86, 73, 32, 0, 0, 0, 0, 0, 0, 0, 0, 0, 0, 0, 0>>

\* RIFF/WAVE with a PCM fmt chunk and a data chunk, no XMA chunk (57 bytes)
WavePcm == <<82, 73, 70, 70, 44, 0, 0, 0, 87, 65, 86, 69, 102, 109, 116, 32, 16, 0, 0, 0, 1, 0, 2, 0, 0, 0, 0, 0, 0, 0, 0, 0, 0, 0, 0, 0, 100, 97, 116, 97, 4, 0, 0, 0, 0, 0, 0, 0, 0, 0, 0, 0, 0, 0, 0, 0, 0>>

\* no RIFF magic (16 bytes)
NotRiff == <<82, 73, 70, 88, 255, 255, 255, 255, 255, 255, 255, 255, 255, 255, 255, 255>>

\* signature, IHDR (64 x 32), IEND, two trailing bytes (47 bytes)
PngTwoChunks == <<137, 80, 78, 71, 13, 10, 26, 10, 0, 0, 0, 13, 73, 72, 68, 82, 0, 0, 0, 64, 0, 0, 0, 32, 8, 6, 0, 0, 0, 0, 0, 0, 0, 0, 0, 0, 0, 73, 69, 78, 68, 0, 0, 0, 0, 0, 0>>

\* signature and a chunk whose length field is garbage (41 bytes)
PngGarbageLength == <<137, 80, 78, 71, 13, 10, 26, 10, 127, 255, 255, 255, 106, 117, 110, 107, 0, 0, 0, 0, 0, 0, 0, 0, 0, 0, 0, 0, 0, 0, 0, 0, 0, 0, 0, 0, 0, 0, 0, 0, 0>>

\* signature, IHDR and a chunk of the largest accepted length (47 bytes)
PngHugeChunk == <<137, 80, 78, 71, 13, 10, 26, 10, 0, 0, 0, 13, 73, 72, 68, 82, 0, 0, 0, 64, 0, 0, 0, 32, 8, 6, 0, 0, 0, 0, 0, 0, 0, 3, 32, 0, 0, 73, 68, 65, 84, 0, 0, 0, 0, 0, 0>>

\* no PNG signature (40 bytes)
NotPng == <<137, 80, 78, 88, 13, 10, 26, 10, 0, 0, 0, 0, 0, 0, 0, 0, 0, 0, 0, 0, 0, 0, 0, 0, 0, 0, 0, 0, 0, 0, 0, 0, 0, 0, 0, 0, 0, 0, 0, 0>>

\* 'scn Quest01\nset a to 1\nEnd\n'
ScriptPlain == <<115, 99, 110, 32, 81, 117, 101, 115, 116, 48, 49, 10, 115, 101, 116, 32, 97, 32, 116, 111, 32, 49, 10, 69, 110, 100, 10>>

\* 'scn Q1\nshort x\n\x00\x00ÿgarbage'
ScriptGarbageTail == <<115, 99, 110, 32, 81, 49, 10, 115, 104, 111, 114, 116, 32, 120, 10, 0, 0, 255, 103, 97, 114, 98, 97, 103, 101>>

\* 'scn no newline here'
ScriptNoNewline == <<115, 99, 110, 32, 110, 111, 32, 110, 101, 119, 108, 105, 110, 101, 32, 104, 101, 114, 101>>

\* 'scn bad-name!\nbody text\nend\n'
ScriptBadName == <<115, 99, 110, 32, 98, 97, 100, 45, 110, 97, 109, 101, 33, 10, 98, 111, 100, 121, 32, 116, 101, 120, 116, 10, 101, 110, 100, 10>>

\* 'ScriptName Two\nbegin\nendif\nscn Next\nx\n'
ScriptNameHeader == <<83, 99, 114, 105, 112, 116, 78, 97, 109, 101, 32, 84, 119, 111, 10, 98, 101, 103, 105, 110, 10, 101, 110, 100, 105, 102, 10, 115, 99, 110, 32, 78, 101, 120, 116, 10, 120, 10>>

\* 'ÿþscn X1\n\tshort y\n  \n'
ScriptHighBytes == <<255, 254, 115, 99, 110, 32, 88, 49, 10, 9, 115, 104, 111, 114, 116, 32, 121, 10, 32, 32, 10>>

\* 'abc def\nfoo bar baz\n'
NotScript == <<97, 98, 99, 32, 100, 101, 102, 10, 102, 111, 111, 32, 98, 97, 114, 32, 98, 97, 122, 10>>

XmaBuffers == {XmaFmtChunk, XmaGarbageSizes, XmaSecondChunk, RiffAvi, WavePcm, NotRiff}
PngBuffers == {PngTwoChunks, PngGarbageLength, PngHugeChunk, NotPng}
ScriptBuffers == {ScriptPlain, ScriptGarbageTail, ScriptNoNewline, ScriptBadName, ScriptNameHeader, ScriptHighBytes, NotScript}

\* two scripts stored one after the other: 'scn MyScript\n' body '\nEnd\n'
\* 'scn NextScript\n' tail
MyScriptHeader == <<115, 99, 110, 32, 77, 121, 83, 99, 114, 105, 112, 116, 10>>
MyScriptName == <<77, 121, 83, 99, 114, 105, 112, 116>>
EndLine == <<10, 69, 110, 100, 10>>
NextScriptHeader == <<115, 99, 110, 32, 78, 101, 120, 116, 83, 99, 114, 105, 112, 116, 10>>
\* bodies of printable text without a header keyword: '', 'x', 'ab', 'abc', 'int x\nset x to 1', 'begin GameMode\n  if x == 1\n  endif\nend', 'short a ; note  \n\t'
ScriptBodies ==
    {<< >>,
     <<120>>,
     <<97, 98>>,
     <<97, 98, 99>>,
     <<105, 110, 116, 32, 120, 10, 115, 101, 116, 32, 120, 32, 116, 111, 32, 49>>,
     <<98, 101, 103, 105, 110, 32, 71, 97, 109, 101, 77, 111, 100, 101, 10, 32, 32, 105, 102, 32, 120, 32, 61, 61, 32, 49, 10, 32, 32, 101, 110, 100, 105, 102, 10, 101, 110, 100>>,
     <<115, 104, 111, 114, 116, 32, 97, 32, 59, 32, 110, 111, 116, 101, 32, 32, 10, 9>>}
\* what follows the second header: nothing, a script body, garbage
ScriptTails == {<< >>, <<105, 110, 116, 32, 121, 10, 69, 110, 100, 10>>, <<0, 0, 255>>}
SequentialScripts(body, tail) == MyScriptHeader \o body \o EndLine \o NextScriptHeader \o tail
ScriptProbes ==
    {Probe("script", SequentialScripts(b, t), 0, [off |-> ProbeOffset, body |-> b, tail |-> t]) :
        b \in ScriptBodies, t \in ScriptTails}

\* scripts cut off by garbage, with and without the terminator keyword
\* 'scn Quest01\nif a == 1\nset b to 2\nendif\n\x00\x00'
ScriptEndifOnly == <<115, 99, 110, 32, 81, 117, 101, 115, 116, 48, 49, 10, 105, 102, 32, 97, 32, 61, 61, 32, 49, 10, 115, 101, 116, 32, 98, 32, 116, 111, 32, 50, 10, 101, 110, 100, 105, 102, 10, 0, 0>>
\* 'scn Quest01\nset a to legend\n\x00'
ScriptLastWordLegend == <<115, 99, 110, 32, 81, 117, 101, 115, 116, 48, 49, 10, 115, 101, 116, 32, 97, 32, 116, 111, 32, 108, 101, 103, 101, 110, 100, 10, 0>>
\* 'scn Quest01\nset a to 1\nEnd\n\x00'
ScriptEnded == <<115, 99, 110, 32, 81, 117, 101, 115, 116, 48, 49, 10, 115, 101, 116, 32, 97, 32, 116, 111, 32, 49, 10, 69, 110, 100, 10, 0>>
\* 'scn Quest01\nset a to 1\nset b to 2\n\x00'
ScriptUnended == <<115, 99, 110, 32, 81, 117, 101, 115, 116, 48, 49, 10, 115, 101, 116, 32, 97, 32, 116, 111, 32, 49, 10, 115, 101, 116, 32, 98, 32, 116, 111, 32, 50, 10, 0>>
\* 'scn Quest01\nbegin\n  End\nset c to 3\n\x00'
ScriptIndentedEnd == <<115, 99, 110, 32, 81, 117, 101, 115, 116, 48, 49, 10, 98, 101, 103, 105, 110, 10, 32, 32, 69, 110, 100, 10, 115, 101, 116, 32, 99, 32, 116, 111, 32, 51, 10, 0>>
TerminatorBuffers == {ScriptEndifOnly, ScriptLastWordLegend, ScriptEnded, ScriptUnended, ScriptIndentedEnd}
TerminatorProbes == {Probe("script", b, 0, [off |-> ProbeOffset]) : b \in TerminatorBuffers}

\* scripts whose end is decided between a later header keyword and garbage
\* 'scn Quest01\nset a to 1 ; scn x\nEnd\n': a keyword in the middle of a line
ScriptKeywordInLine == <<115, 99, 110, 32, 81, 117, 101, 115, 116, 48, 49, 10, 115, 101, 116, 32, 97, 32, 116, 111, 32, 49, 32, 59, 32, 115, 99, 110, 32, 120, 10, 69, 110, 100, 10>>
\* 'scn Q\nab\nscn Next\nxx\n': eight bytes before the next header
ScriptTooShort == <<115, 99, 110, 32, 81, 10, 97, 98, 10, 115, 99, 110, 32, 78, 101, 120, 116, 10, 120, 120, 10>>
\* 'scn Quest01\nset a\x01 to\nscn Next\n': garbage before the next header
ScriptGarbageFirst == <<115, 99, 110, 32, 81, 117, 101, 115, 116, 48, 49, 10, 115, 101, 116, 32, 97, 1, 32, 116, 111, 10, 115, 99, 110, 32, 78, 101, 120, 116, 10>>
\* 'scn Quest01\nint x\nSCRIPTNAME B\nscn C\n': two keywords, the later in the list first
ScriptTwoKeywords == <<115, 99, 110, 32, 81, 117, 101, 115, 116, 48, 49, 10, 105, 110, 116, 32, 120, 10, 83, 67, 82, 73, 80, 84, 78, 65, 77, 69, 32, 66, 10, 115, 99, 110, 32, 67, 10>>
\* 'scn Quest01\nint x \t\n\n  \nscn Next\n\x00': blank lines before the next header, garbage after it
ScriptBlankLines == <<115, 99, 110, 32, 81, 117, 101, 115, 116, 48, 49, 10, 105, 110, 116, 32, 120, 32, 9, 10, 10, 32, 32, 10, 115, 99, 110, 32, 78, 101, 120, 116, 10, 0>>
EndBuffers == {ScriptKeywordInLine, ScriptTooShort, ScriptGarbageFirst, ScriptTwoKeywords, ScriptBlankLines}
EndProbes == {Probe("script", b, 0, NoAbout) : b \in EndBuffers}

\* RIFF/WAVE containers built from sub-chunks.  A sub-chunk is its tag and
\* its payload; it is stored as tag, little-endian payload length, payload
\* and a pad byte when the length is odd.
SubChunk(tag, payload) == [tag |-> tag, payload |-> payload]
FmtOf(format_tag, extra) == SubChunk(FmtChunk, <<format_tag % 256, format_tag \div 256, 2, 0>> \o Zeros(12 + extra))
JunkOf(n) == SubChunk(<<74, 85, 78, 75>>, Zeros(n))
SubChunks ==
    {FmtOf(357, 2), FmtOf(358, 2), FmtOf(1, 0), SubChunk(XMA2, Zeros(4)),
     SubChunk(<<76, 73, 83, 84>>, <<1, 2, 3>>), SubChunk(DATA_CHUNK, Zeros(4)),
     JunkOf(LookAhead - 22), JunkOf(LookAhead - 20)}
StoredLength(c) == 8 + Len(c.payload) + (Len(c.payload) % 2)
EncodeSubChunk(c) ==
    c.tag \o Uint32Bytes(Len(c.payload), FALSE) \o c.payload \o Zeros(Len(c.payload) % 2)
RECURSIVE EncodeSubChunks(_)
EncodeSubChunks(cs) ==
    IF cs = << >> THEN << >> ELSE EncodeSubChunk(Head(cs)) \o EncodeSubChunks(Tail(cs))
RiffWave(declared, cs) == RIFF \o Uint32Bytes(declared, FALSE) \o WAVE \o EncodeSubChunks(cs)
MaxSubChunks == 3
SubChunkLists == UNION {[1..n -> SubChunks] : n \in 0..MaxSubChunks}
\* the size of the container as it is, a size smaller and one larger than it
DeclaredSizes(cs) == {4 + Len(EncodeSubChunks(cs)), 4, 2000000000}
ContainerProbes ==
    {Probe("xma", RiffWave(d[1], d[2]), 0, [off |-> ProbeOffset, declared |-> d[1], chunks |-> d[2]]) :
        d \in UNION {{<<n, cs>> : n \in DeclaredSizes(cs)} : cs \in SubChunkLists}}

\* every buffer cut short at every length, at every padding
Truncated(oracle, buffers) ==
    {Probe(oracle, Padded(p, k), k, NoAbout) :
        p \in UNION {Prefixes(b) : b \in buffers}, k \in 0..MaxPad}

\* payloads below, at and above the two size thresholds, one that needs
\* the second candidate length, and one that starts with a known magic
ZlibPayloads ==
    {[i \in 1..n |-> 97 + (i % 5)] : n \in {0, 19, 20, 50, 51, 100}}
        \cup {[i \in 1..1100 |-> (7 * i) % 256]}
        \cup {<<68, 68, 83, 32>> \o [i \in 1..56 |-> 0]}
ZlibTrailings == {<< >>, <<0, 0, 0, 0, 0, 0, 0, 0>>, <<120, 156, 3, 0>>, <<255>>}
ZlibCuts == {1, 4, 5}

\* a compressed payload followed by trailing bytes, and compressed payloads
\* whose last bytes are missing from the buffer
ZlibProbes ==
    {Probe("zlib", Padded(ZlibCompress(hd, p) \o tr, k), k,
           [off |-> ProbeOffset, payload |-> p, whole |-> TRUE]) :
        hd \in {ZLIB_DEFAULT, ZLIB_BEST}, p \in ZlibPayloads,
        tr \in ZlibTrailings, k \in 0..MaxPad}
    \cup
    {Probe("zlib", SubSeq(ZlibCompress(ZLIB_DEFAULT, p), 1, Len(p) + 11 - d), 0,
           [off |-> ProbeOffset, payload |-> p, whole |-> FALSE]) :
        p \in ZlibPayloads, d \in ZlibCuts}

\* logical texture headers: dimensions at and beyond both ends of the
\* accepted range, with and without a mip chain and a pitch, block-compressed
\* and not
DdsDims == {0, 1, 5, 256, 16384, 16385}
DdsHeaders ==
    {[header_size |-> DdsHeaderSizeField, height |-> h, width |-> w, pitch |-> p,
      mipmap_count |-> m, fourcc |-> f] :
        h \in DdsDims, w \in DdsDims, p \in {0, 1024}, m \in {0, 1, 3},
        f \in {DXT1, DXT5, ATI1, Zeros(4)}}

\* each logical header in both byte orders, followed by a few more bytes
DdsProbes ==
    {Probe("dds", DdsEncode(hd, big) \o Zeros(8), 0,
           [off |-> ProbeOffset, header |-> hd, big |-> big]) :
        hd \in DdsHeaders, big \in BOOLEAN}

\* texture headers to cut short: a valid one in each byte order, and one
\* with garbage in every numeric field
DdsBuffers ==
    {DdsEncode([header_size |-> DdsHeaderSizeField, height |-> 256, width |-> 256, pitch |-> 0, mipmap_count |-> 1, fourcc |-> DXT1], big) : big \in BOOLEAN}
        \cup {DdsEncode([header_size |-> 2139062143, height |-> 2139062143, width |-> 2139062143, pitch |-> 2139062143, mipmap_count |-> 2139062143, fourcc |-> <<127, 127, 127, 127>>], FALSE)}

Probes ==
    Truncated("xma", XmaBuffers) \cup ContainerProbes \cup Truncated("png", PngBuffers)
        \cup Truncated("script", ScriptBuffers) \cup ScriptProbes
        \cup TerminatorProbes \cup EndProbes \cup ZlibProbes
        \cup DdsProbes \cup Truncated("dds", DdsBuffers)

\* the carver at rest while an oracle is probed
CarverAtRest ==
    /\ dump = CHOOSE d \in Captures : TRUE
    /\ chunk_size = CHOOSE c \in ChunkSizes : TRUE
    /\ max_files_per_type = MaxFilesCap
    /\ stats = ZeroStats
    /\ manifest = <<>>
    /\ fs = EmptyDir
    /\ manifest_file = NoManifestFile
    /\ pc = "oracle"
    /\ offset = 0
    /\ chunk_offset = 0
    /\ chunk_len = 0
    /\ sig_idx = 1
    /\ search_pos = 0
    /\ win = 0
    /\ scan_no = 0
    /\ fault_budget = 0
    /\ handed = {}
    /\ skipped = {}
    /\ searched = {}
    /\ last = NoExtract
    /\ scans = <<>>

carver_vars == <<dump, chunk_size, max_files_per_type, stats, manifest, fs, manifest_file, pc, offset, chunk_offset, chunk_len, sig_idx, search_pos, win, scan_no, fault_budget, handed, skipped, searched, last, scans>>

InitOracle ==
    /\ probe \in Probes
    /\ result = Pending
    /\ CarverAtRest

ParseXma ==
    /\ probe.oracle = "xma"
    /\ result = Pending
    /\ result' = XmaParseHeader(probe.data, probe.offset)
    /\ UNCHANGED <<probe, carver_vars>>

ParsePng ==
    /\ probe.oracle = "png"
    /\ result = Pending
    /\ result' = PngParseHeader(probe.data, probe.offset)
    /\ UNCHANGED <<probe, carver_vars>>

ParseScript ==
    /\ probe.oracle = "script"
    /\ result = Pending
    /\ result' = ScriptParseScript(probe.data, probe.offset, ParseScriptMaxSize)
    /\ UNCHANGED <<probe, carver_vars>>

ParseDds ==
    /\ probe.oracle = "dds"
    /\ result = Pending
    /\ result' = DdsParseHeader(probe.data, probe.offset)
    /\ UNCHANGED <<probe, carver_vars>>

TryDecompress ==
    /\ probe.oracle = "zlib"
    /\ result = Pending
    /\ result' = ZlibTryDecompress(probe.data, probe.offset, MaxCompressedSize)
    /\ UNCHANGED <<probe, carver_vars>>

\* the candidate as _extract_file sees it: what the oracle handed back
VerdictHit(p, r) ==
    CASE r.status # "verdict" ->
           Hit(p.about.off, "", "reject", 0, FALSE, "", 0, 0, "", "")
      [] p.oracle = "zlib" ->
           Hit(p.about.off, "78 9C", "zlib", r.compressed_size, FALSE, "",
               r.decompressed_data, r.decompressed_size, r.content_type, "")
      [] p.oracle = "dds" ->
           Hit(p.about.off, "DDS ", "size", r.estimated_size, r.is_xbox360, "",
               p.data, 0, "", "")
      [] p.oracle = "script" ->
           Hit(p.about.off, "scn ", "script", r.size, r.is_complete,
               NameText(r.name), p.data, 0, "", "")

ProbeType(p) ==
    CASE p.oracle = "zlib" -> "zlib_default"
      [] p.oracle = "dds" -> "dds"
      [] p.oracle = "script" -> "script_scn"

\* _extract_file on the probed candidate, in an empty output directory
Extract ==
    /\ pc = "oracle"
    /\ result # Pending
    /\ result.status # "raised"
    /\ probe.oracle \in {"zlib", "dds", "script"}
    /\ probe.about.off >= 0
    /\ probe.offset = 0
    /\ LET o == ExtractFile(VerdictHit(probe, result), ProbeType(probe), "none",
                            stats, manifest, fs, probe.about.off + DdsMaxSize)
       IN  /\ stats' = o.stats
           /\ manifest' = o.manifest
           /\ fs' = o.fs
    /\ pc' = "extracted"
    /\ UNCHANGED <<probe, result, dump, chunk_size, max_files_per_type,
                   manifest_file, offset, chunk_offset, chunk_len, sig_idx,
                   search_pos, win, scan_no, fault_budget, handed, skipped,
                   searched, last, scans>>

NextOracle ==
    \/ ParseXma
    \/ ParsePng
    \/ ParseScript
    \/ ParseDds
    \/ TryDecompress
    \/ Extract

SpecOracle == InitOracle /\ [][NextOracle]_vars

(***************************************************************************)
(* C12.  Every format oracle, on a buffer of any length (empty, shorter    *)
(* than the header, garbage in the length fields), hands back None or a    *)
(* verdict: no exception leaves the oracle.  A byte index at or beyond the *)
(* end of the buffer is what raises struct.error or IndexError in the      *)
(* source, so a read past the end would show as such an exception.         *)
(***************************************************************************)
C12_OracleNeverRaises ==
    result # Pending => result.status \in {"none", "verdict"}

\* a truncated fmt chunk: the read of the format tag raises and is handled
C12_Witness ==
    /\ probe.oracle = "xma"
    /\ result.status = "none"
    /\ result.caught

(***************************************************************************)
(* C13.  Compressed-stream round trip, as it holds: a payload of at least  *)
(* 20 bytes whose compressed stream lies wholly in the buffer, whatever    *)
(* follows it, comes back byte for byte, with the compressed size the      *)
(* exact length of the stream; a payload of more than 50 bytes gets a      *)
(* record with size_in_dump that length and size_output the payload's      *)
(* length.  Shorter payloads get no verdict (under 20) or no record (50    *)
(* and under).                                                             *)
(***************************************************************************)
StreamLength(p) == Len(ZlibCompress(ZLIB_DEFAULT, p))

RoundTrip(minimum) ==
    (probe.oracle = "zlib" /\ probe.about.whole /\ result # Pending
        /\ Len(probe.about.payload) >= minimum)
    => /\ result.status = "verdict"
       /\ result.decompressed_data = probe.about.payload
       /\ result.compressed_size = StreamLength(probe.about.payload)

RecordOfStream(minimum) ==
    (probe.oracle = "zlib" /\ probe.about.whole /\ pc = "extracted"
        /\ Len(probe.about.payload) >= minimum)
    => /\ Len(manifest) = 1
       /\ manifest[1].offset = probe.about.off
       /\ manifest[1].size_in_dump = StreamLength(probe.about.payload)
       /\ manifest[1].size_output = Len(probe.about.payload)

C13_RoundTripAboveThresholds ==
    /\ RoundTrip(MinOracleDecompressed)
    /\ RecordOfStream(ZlibMinDecompressed + 1)
    /\ (probe.oracle = "zlib" /\ result # Pending
            /\ Len(probe.about.payload) < MinOracleDecompressed)
        => result.status = "none"
    /\ (probe.oracle = "zlib" /\ pc = "extracted"
            /\ Len(probe.about.payload) <= ZlibMinDecompressed)
        => manifest = << >>

\* the payload that needs the second candidate length, with trailing bytes
C13_Witness ==
    /\ probe.oracle = "zlib"
    /\ pc = "extracted"
    /\ StreamLength(probe.about.payload) > TrySizes[1]
    /\ Len(probe.data) > StreamLength(probe.about.payload)
    /\ Len(manifest) = 1
    /\ manifest[1].size_in_dump = StreamLength(probe.about.payload)

\* C13 as stated: the round trip and the record for any payload.
C13_RoundTripAnyPayload ==
    RoundTrip(0) /\ RecordOfStream(0)

(***************************************************************************)
(* C14.  Endianness handling: a logical texture header with header-size    *)
(* field 124 and width and height in 1..16384 parses, in its little-endian *)
(* and in its big-endian encoding, to the same width, height and size;     *)
(* the little-endian encoding is flagged little (is_xbox360 false), the    *)
(* big-endian one big (is_xbox360 true).                                   *)
(***************************************************************************)
LogicalHeaderProbed ==
    /\ probe.oracle = "dds"
    /\ probe.about.off >= 0
    /\ result # Pending
    /\ probe.about.header.header_size = DdsHeaderSizeField
    /\ probe.about.header.width \in 1..DdsMaxDimension
    /\ probe.about.header.height \in 1..DdsMaxDimension

C14_EndiannessAgree ==
    LogicalHeaderProbed
    => /\ result.status = "verdict"
       /\ result.width = probe.about.header.width
       /\ result.height = probe.about.header.height
       /\ result.estimated_size
            = DdsParseHeader(DdsEncode(probe.about.header, ~probe.about.big), 0).estimated_size
       /\ result.is_xbox360 = probe.about.big
       /\ result.endianness = IF probe.about.big THEN "big" ELSE "little"

\* a big-endian header with a mip chain has been parsed
C14_Witness ==
    /\ LogicalHeaderProbed
    /\ probe.about.big
    /\ probe.about.header.mipmap_count > 1
    /\ result.status = "verdict"
    /\ result.is_xbox360

(***************************************************************************)
(* C15.  A valid little-endian texture header with a block-compressed      *)
(* pixel format and no mip chain, at offset o of a capture long enough to  *)
(* hold the texture, gives exactly one record of the type, with offset o   *)
(* and size 128 + ceil(width/4) * ceil(height/4) * block_bytes.  (Stated   *)
(* for scans by a new carver into an empty directory, without an injected  *)
(* failure, in which the counter stays below the cap.)                     *)
(***************************************************************************)
BlockTextureSize(hd) ==
    128 + ((hd.width + 3) \div 4) * ((hd.height + 3) \div 4) * GetBytesPerBlock(hd.fourcc)

LittleBlockTextures(hits) ==
    {h \in hits : /\ h.magic = "DDS "
                  /\ h.kind = "size"
                  /\ ~h.flag
                  /\ h.size = OracleSize(SmallTexture, FALSE)
                  /\ h.off + h.size <= dump.size}

C15_OneRecordPerTexture ==
    \A i \in 1..Len(scans) :
        (FreshScan(i) /\ CapNotReached(i)) =>
            \A h \in LittleBlockTextures(dump.hits) :
                LET recs == {k \in 1..Len(scans[i].manifest) :
                                /\ scans[i].manifest[k].file_type = "dds"
                                /\ scans[i].manifest[k].offset = h.off}
                IN  /\ Cardinality(recs) = 1
                    /\ \A k \in recs :
                          scans[i].manifest[k].size_in_dump = BlockTextureSize(SmallTexture)

(***************************************************************************)
(* C16.  Every recovered file that is neither a decompressed stream nor a  *)
(* script is stored in the destination folder its descriptor names, under  *)
(* {type}_{counter:04d}_off_{offset:08X}{ext} with counter the number of   *)
(* files of the type recovered earlier in the scan (0000 for the first),   *)
(* and the manifest's filename is that path relative to the output         *)
(* directory.                                                              *)
(***************************************************************************)
RecoveredEarlier(mf, k) ==
    Cardinality({j \in 1..(k - 1) : mf[j].file_type = mf[k].file_type})

C16_StoredInDescriptorFolder ==
    \A i \in 1..Len(scans) :
        FreshScan(i) =>
            \A k \in 1..Len(scans[i].manifest) :
                LET e == scans[i].manifest[k]
                    t == e.file_type
                IN  (t \notin StreamTypes \cup {"script_scn", "script_sn"}) =>
                        /\ e.filename[1] = FILE_SIGNATURES[t].folder
                        /\ e.filename[2] = t \o "_"
                               \o CounterDigits[RecoveredEarlier(scans[i].manifest, k)]
                               \o "_off_" \o OffsetDigits[e.offset]
                        /\ e.filename[3] \in {FILE_SIGNATURES[t].extension, ".ddx"}

(***************************************************************************)
(* C17.  Script recovery, as it holds: of two scripts stored one after the *)
(* other, "scn MyScript\n<body>\nEnd\n" and "scn NextScript\n...", the body *)
(* printable text without a header keyword, the oracle names the first     *)
(* MyScript, ends it at the last non-whitespace byte before the second     *)
(* header and reports it complete; when that extent is at least min_size   *)
(* (20 bytes, a body of three bytes or more) the candidate gives exactly   *)
(* one record, at the first header, of that size, stored as MyScript.txt   *)
(* without an incompleteness marker.  A shorter first script gets no       *)
(* record.                                                                 *)
(***************************************************************************)
\* the number of bytes up to the last one that is not whitespace
LastNonWhitespace(s) ==
    LET keep == {i \in 1..Len(s) : s[i] \notin {9, 10, 13, 32}}
    IN  IF keep = {} THEN 0 ELSE CHOOSE i \in keep : \A j \in keep : j <= i

FirstScriptExtent(body) == LastNonWhitespace(MyScriptHeader \o body \o EndLine)

SequentialScriptsProbed ==
    /\ probe.oracle = "script"
    /\ "body" \in DOMAIN probe.about
    /\ result # Pending

FirstScriptVerdict ==
    SequentialScriptsProbed =>
        /\ result.status = "verdict"
        /\ result.name = MyScriptName
        /\ result.size = FirstScriptExtent(probe.about.body)
        /\ result.is_complete

FirstScriptRecord(minimum) ==
    (SequentialScriptsProbed /\ pc = "extracted") =>
        IF FirstScriptExtent(probe.about.body) >= minimum
        THEN /\ Len(manifest) = 1
             /\ manifest[1].file_type = "script_scn"
             /\ manifest[1].offset = probe.about.off
             /\ manifest[1].size_in_dump = FirstScriptExtent(probe.about.body)
             /\ manifest[1].filename = <<"script_scn", "MyScript", FILE_SIGNATURES["script_scn"].extension>>
        ELSE manifest = << >>

C17_FirstScriptRecovered ==
    FirstScriptVerdict /\ FirstScriptRecord(FILE_SIGNATURES["script_scn"].min_size)

\* the first script, long enough, followed by a second one with a body of
\* its own, has been extracted
C17_Witness ==
    /\ SequentialScriptsProbed
    /\ pc = "extracted"
    /\ probe.about.tail # << >>
    /\ Len(probe.about.body) > 3
    /\ Len(manifest) = 1
    /\ manifest[1].size_in_dump < Len(probe.data) - Len(NextScriptHeader)

\* C17 as stated: a record for every body.
C17_RecordForAnyBody ==
    FirstScriptVerdict /\ FirstScriptRecord(0)

(***************************************************************************)
(* C18.  The script oracle reports a script complete only if the           *)
(* terminator keyword "end", in any letter case, stands in the recovered   *)
(* text as a whole token at the start of a line or as the last token after *)
(* trimming; a recovered script without such a token is reported           *)
(* incomplete and its file name carries the marker _INCOMPLETE.            *)
(***************************************************************************)
\* the script text the verdict covers, decoded and lower-cased
RecoveredText ==
    Lower(DecodeAsciiIgnore(Slice(probe.data, probe.offset, probe.offset + result.size)))

WordByte(c) == IsAlnum(c) \/ c = 95

\* "end" stands at index i of text and the word stops there
EndTokenAt(text, i) ==
    /\ i >= 1
    /\ i + 2 <= Len(text)
    /\ SubSeq(text, i, i + 2) = EndWord
    /\ (i + 3 > Len(text) \/ ~WordByte(text[i + 3]))

HasTerminatorToken(text) ==
    \/ \E i \in 1..Len(text) :
           EndTokenAt(text, i) /\ (i = 1 \/ text[i - 1] = 10)
    \/ LET r == Rstrip(text)
       IN  /\ EndTokenAt(r, Len(r) - 2)
           /\ (Len(r) = 3 \/ ~WordByte(r[Len(r) - 3]))

C18_CompleteOnlyWithTerminatorToken ==
    (probe.oracle = "script" /\ result # Pending /\ result.status = "verdict") =>
        /\ result.is_complete => HasTerminatorToken(RecoveredText)
        /\ (pc = "extracted" /\ manifest # << >> /\ ~HasTerminatorToken(RecoveredText))
              => manifest[1].filename[2] = NameText(result.name) \o "_INCOMPLETE"

(***************************************************************************)
(* C19.  The container-audio oracle on a RIFF container with the WAVE      *)
(* format tag, as it holds: when one of the sub-chunks that start within   *)
(* the first 200 bytes is an XMA2 chunk or a fmt chunk with format tag     *)
(* 0x0165 or 0x0166, the oracle returns length = declared chunk size + 8,  *)
(* whatever the sub-chunks are; when none is, the container is rejected.   *)
(***************************************************************************)
ContainerProbed ==
    /\ probe.oracle = "xma"
    /\ "chunks" \in DOMAIN probe.about
    /\ result # Pending

\* where sub-chunk k of the list starts in the container
RECURSIVE SubChunkStart(_, _)
SubChunkStart(cs, k) ==
    IF k = 1 THEN 12 ELSE SubChunkStart(cs, k - 1) + StoredLength(cs[k - 1])

ConsoleAudioChunk(c) ==
    \/ c.tag = XMA2
    \/ c.tag = FmtChunk /\ c.payload[1] + 256 * c.payload[2] \in {357, 358}

HasConsoleAudio(cs) ==
    \E k \in 1..Len(cs) : ConsoleAudioChunk(cs[k]) /\ SubChunkStart(cs, k) < 200

DeclaredPlus8 ==
    /\ result.status = "verdict"
    /\ result.file_size = probe.about.declared + 8

TextureBlob == DdsEncode(SmallTexture, FALSE) \o [i \in 1..8 |-> 17]
ScriptBlob == ScriptPlain

\* the candidate a blob gives when the bytes after it are those of next
BlobHit(oracle, blob, next, off, body) ==
    LET data == blob \o next \o Zeros(8)
        p == Probe(oracle, data, 0, [off |-> off])
        r == IF oracle = "dds" THEN DdsParseHeader(data, 0)
                               ELSE ScriptParseScript(data, 0, ParseScriptMaxSize)
    IN  [VerdictHit(p, r) EXCEPT !.body = body]

AdjacentCaptures ==
    {[size |-> CaptureSize,
      hits |-> {BlobHit("dds", TextureBlob, ScriptBlob, o, 41),
                BlobHit("script", ScriptBlob, << >>, o + Len(TextureBlob), 42)}] :
        o \in AdjacentStarts}
    \cup
    {[size |-> CaptureSize,
      hits |-> {BlobHit("script", ScriptBlob, TextureBlob, o, 42),
                BlobHit("dds", TextureBlob, << >>, o + Len(ScriptBlob), 41)}] :
        o \in AdjacentStarts}

InitAdjacent ==
    /\ dump \in AdjacentCaptures
    /\ chunk_size \in ChunkSizes
    /\ max_files_per_type \in {1, MaxFilesCap}
    /\ stats = ZeroStats
    /\ manifest = <<>>
    /\ fs = EmptyDir
    /\ manifest_file = NoManifestFile
    /\ pc = "idle"
    /\ offset = 0
    /\ chunk_offset = 0
    /\ chunk_len = 0
    /\ sig_idx = 1
    /\ search_pos = 0
    /\ win = 0
    /\ scan_no = 0
    /\ fault_budget = MaxFaults
    /\ handed = {}
    /\ skipped = {}
    /\ searched = {}
    /\ last = NoExtract
    /\ scans = <<>>
    /\ probe = NoProbe
    /\ result = Pending

SpecAdjacent == InitAdjacent /\ [][Next]_vars

(***************************************************************************)
(* C20.  In a capture in which a blob of one format is immediately         *)
(* followed by a blob of another, a scan for both types gives exactly one  *)
(* record for each blob, at the blob's offset, with the size the blob has  *)
(* on its own (the size its oracle gives when zero bytes follow it).       *)
(* (Stated for scans by a new carver into an empty directory, without an   *)
(* injected failure, in which no counter reaches the cap.)                 *)
(***************************************************************************)
TypeOfHit(h) == CHOOSE t \in FileTypes : FILE_SIGNATURES[t].magic = h.magic

SizeOnItsOwn(h) ==
    IF h.magic = "DDS "
    THEN BlobHit("dds", TextureBlob, << >>, h.off, h.body).size
    ELSE BlobHit("script", ScriptBlob, << >>, h.off, h.body).size

C20_AdjacentBlobsOnceEach ==
    \A i \in 1..Len(scans) :
        (FreshScan(i) /\ CapNotReached(i)) =>
            \A h \in dump.hits :
                LET recs == {k \in 1..Len(scans[i].manifest) :
                                /\ scans[i].manifest[k].file_type = TypeOfHit(h)
                                /\ scans[i].manifest[k].offset = h.off}
                IN  /\ Cardinality(recs) = 1
                    /\ \A k \in recs : scans[i].manifest[k].size_in_dump = SizeOnItsOwn(h)

(***************************************************************************)
(* Captures scanned for two or more types of the scene-graph family.  The  *)
(* capture holds one scene-graph header ('Gamebryo File Format, Version    *)
(* 20.2.0.7', a newline, a null byte, then a block count) or one with a    *)
(* version string that has no end; the candidate is what NifParseHeader    *)
(* returns on the bytes.                                                   *)
(***************************************************************************)
NifVersion == <<44, 32, 86, 101, 114, 115, 105, 111, 110, 32, 50, 48, 46, 50, 46, 48, 46, 55, 10>>

NifBlob(blocks) ==
    NIF_MAGIC \o NifVersion \o <<0>> \o Uint32Bytes(blocks, FALSE) \o [i \in 1..120 |-> 1]

NifUnterminated == NIF_MAGIC \o NifVersion \o [i \in 1..120 |-> 1]

FamilyHit(blob, off, body) ==
    LET r == NifParseHeader(blob, 0)
    IN  IF r.status = "verdict"
        THEN Hit(off, "Gamebryo File Format", "size", r.estimated_size, FALSE, "", body, 0, "", "")
        ELSE Hit(off, "Gamebryo File Format", "reject", 0, FALSE, "", body, 0, "", "")

FamilyRequests == {{"nif", "kf"}, {"kf", "egm", "egt"}, {"nif", "kf", "egm", "egt"}}

FamilyCaptures ==
    {[size |-> CaptureSize, hits |-> {FamilyHit(NifBlob(b), o, 50 + b)}, file_types |-> ts] :
        o \in {1000, 4000, 5100}, b \in {3, 5, 10000}, ts \in FamilyRequests}
    \cup
    {[size |-> CaptureSize, hits |-> {FamilyHit(NifUnterminated, 1000, 49)}, file_types |-> ts] :
        ts \in FamilyRequests}

InitFamily ==
    /\ dump \in FamilyCaptures
    /\ chunk_size \in ChunkSizes
    /\ max_files_per_type \in {1, MaxFilesCap}
    /\ stats = ZeroStats
    /\ manifest = <<>>
    /\ fs = EmptyDir
    /\ manifest_file = NoManifestFile
    /\ pc = "idle"
    /\ offset = 0
    /\ chunk_offset = 0
    /\ chunk_len = 0
    /\ sig_idx = 1
    /\ search_pos = 0
    /\ win = 0
    /\ scan_no = 0
    /\ fault_budget = MaxFaults
    /\ handed = {}
    /\ skipped = {}
    /\ searched = {}
    /\ last = NoExtract
    /\ scans = <<>>
    /\ probe = NoProbe
    /\ result = Pending

SpecFamily == InitFamily /\ [][Next]_vars

(***************************************************************************)
(* C21.  When k >= 2 types of the scene-graph family are requested, every  *)
(* accepted candidate at offset o yields k manifest records at offset o,   *)
(* one under each requested type: exactly one record per requested type    *)
(* and candidate.  (Stated for scans by a new carver into an empty         *)
(* directory, without an injected failure, with a cap that leaves room for *)
(* one file per type and candidate.)                                       *)
(***************************************************************************)
RecordsAt(i, t, o) ==
    {k \in 1..Len(scans[i].manifest) :
        /\ scans[i].manifest[k].file_type = t
        /\ scans[i].manifest[k].offset = o}

C21_OneRecordPerRequestedType ==
    \A i \in 1..Len(scans) :
        (FreshScan(i) /\ Cardinality(dump.hits) <= max_files_per_type) =>
            \A h \in {x \in dump.hits : x.kind = "size"} :
                \A t \in dump.file_types :
                    Cardinality(RecordsAt(i, t, h.off)) = 1

(***************************************************************************)
(* C22.  The persisted manifest is internally consistent: total_files is   *)
(* the number of entries, the two byte totals are the sums of the entries' *)
(* size_in_dump and size_output, and by_type has a row exactly for the     *)
(* types that have entries, holding the count and the two byte sums of the *)
(* entries of that type, so that the counts add up to total_files.         *)
(***************************************************************************)
\* the sum of a field over the entries at the positions of a set
RECURSIVE SumAt(_, _, _)
SumAt(entries, at, field) ==
    IF at = {} THEN 0
    ELSE LET i == CHOOSE j \in at : TRUE
         IN  entries[i][field] + SumAt(entries, at \ {i}, field)

RECURSIVE SumCounts(_, _)
SumCounts(by_type, types) ==
    IF types = {} THEN 0
    ELSE LET t == CHOOSE u \in types : TRUE
         IN  by_type[t].count + SumCounts(by_type, types \ {t})

PositionsOfType(entries, t) == {i \in 1..Len(entries) : entries[i].file_type = t}

C22_ManifestConsistent ==
    manifest_file.exists =>
        LET entries == manifest_file.data.entries
            summary == manifest_file.data.summary
            all == 1..Len(entries)
        IN  /\ summary.total_files = Len(entries)
            /\ summary.total_bytes_in_dump = SumAt(entries, all, "size_in_dump")
            /\ summary.total_bytes_output = SumAt(entries, all, "size_output")
            /\ DOMAIN summary.by_type = {entries[i].file_type : i \in all}
            /\ \A t \in DOMAIN summary.by_type :
                  LET at == PositionsOfType(entries, t)
                  IN  /\ summary.by_type[t].count = Cardinality(at)
                      /\ summary.by_type[t].bytes_in_dump = SumAt(entries, at, "size_in_dump")
                      /\ summary.by_type[t].bytes_output = SumAt(entries, at, "size_output")
            /\ SumCounts(summary.by_type, DOMAIN summary.by_type) = summary.total_files

\* a saved manifest with entries of two types, two of them of one type,
\* and a stream whose output is larger than its extent in the capture
C22_Witness ==
    /\ manifest_file.exists
    /\ Cardinality(DOMAIN manifest_file.data.summary.by_type) >= 2
    /\ \E t \in DOMAIN manifest_file.data.summary.by_type :
          manifest_file.data.summary.by_type[t].count >= 2
    /\ manifest_file.data.summary.total_bytes_output
          > manifest_file.data.summary.total_bytes_in_dump
    /\ manifest_file.data.entries = manifest

(***************************************************************************)
(* StringExtractor (src/src/string_extractor.py): the regions to leave out *)
(* of string extraction.  A region is <<start, end>>; a manifest is read   *)
(* as the sequence of its entries' <<offset, size_in_dump>>.               *)
(***************************************************************************)
MaxEntries == 3       \* entries of a loaded manifest, regions of a list
MaxQuery == 9         \* largest offset asked for

\* tuple order: by start, then by end
RegionLE(a, b) == a[1] < b[1] \/ (a[1] = b[1] /\ a[2] <= b[2])

\* list.sort() of a list of tuples
RECURSIVE SortRegions(_)
SortRegions(rs) ==
    IF rs = <<>> THEN <<>>
    ELSE LET least == CHOOSE i \in 1..Len(rs) : \A j \in 1..Len(rs) : RegionLE(rs[i], rs[j])
         IN  <<rs[least]>> \o SortRegions(SubSeq(rs, 1, least - 1) \o SubSeq(rs, least + 1, Len(rs)))

\* "if offset and size": the regions appended for the entries
RECURSIVE AppendRegions(_)
AppendRegions(entries) ==
    IF entries = <<>> THEN <<>>
    ELSE LET e == Head(entries)
             at == e[1]
             size == e[2]
         IN  (IF at # 0 /\ size # 0
              THEN <<(<<at, at + size>>)>>
              ELSE <<>>) \o AppendRegions(Tail(entries))

\* one turn of the merge loop
MergeStep(merged, r) ==
    LET top == merged[Len(merged)]
    IN  IF r[1] <= top[2]
        THEN [merged EXCEPT ![Len(merged)] = <<top[1], Max(top[2], r[2])>>]
        ELSE Append(merged, r)

RECURSIVE MergeFrom(_, _)
MergeFrom(merged, rest) ==
    IF rest = <<>> THEN merged
    ELSE MergeFrom(MergeStep(merged, Head(rest)), Tail(rest))

\* load_carved_regions on an existing manifest file
LoadCarvedRegions(entries) ==
    LET appended == AppendRegions(entries)
        sorted == SortRegions(appended)
    IN  IF appended = <<>> THEN <<>>
        ELSE MergeFrom(<<sorted[1]>>, Tail(sorted))

\* the manifests loaded and the region lists asked
EntryPool == {<<o, n>> : o \in {0, 1, 2, 5}, n \in {0, 1, 3}}

RECURSIVE SeqsUpTo(_, _)
SeqsUpTo(pool, n) ==
    IF n = 0 THEN {<<>>}
    ELSE LET shorter == SeqsUpTo(pool, n - 1)
         IN  shorter \cup {Append(q, x) : q \in {y \in shorter : Len(y) = n - 1}, x \in pool}

ManifestProbes == {Probe("manifest", es, 0, NoAbout) : es \in SeqsUpTo(EntryPool, MaxEntries)}

SortedDisjoint(rs) ==
    /\ \A i \in 1..Len(rs) : rs[i][1] < rs[i][2]
    /\ \A i \in 1..(Len(rs) - 1) : rs[i][2] <= rs[i + 1][1]

RegionPool == {<<a, b>> : a \in 0..6, b \in 1..7}

\* the lists of at most n regions in which every region is not empty and
\* starts at or after the end of the one before
RECURSIVE DisjointLists(_)
DisjointLists(n) ==
    IF n = 0 THEN {<<>>}
    ELSE LET shorter == DisjointLists(n - 1)
             longer == {Append(q, r) : q \in {y \in shorter : Len(y) = n - 1},
                                       r \in RegionPool}
         IN  shorter \cup {x \in longer : SortedDisjoint(x)}

RegionProbes == {Probe("regions", rs, 0, NoAbout) : rs \in DisjointLists(MaxEntries)}

\* the extractor with its region list, and the query in progress
Loaded(regions) ==
    [status |-> "loaded", caught |-> FALSE, carved_regions |-> regions,
     query |-> 0 - 1, lo |-> 0, hi |-> 0, answer |-> "none", turns |-> 0]

InitStrings ==
    /\ probe \in ManifestProbes \cup RegionProbes
    /\ result = Pending
    /\ CarverAtRest

\* load_carved_regions(manifest_path)
LoadManifest ==
    /\ probe.oracle = "manifest"
    /\ result = Pending
    /\ result' = Loaded(LoadCarvedRegions(probe.data))
    /\ UNCHANGED <<probe, carver_vars>>

\* the region list set as it is
SetRegions ==
    /\ probe.oracle = "regions"
    /\ result = Pending
    /\ result' = Loaded(probe.data)
    /\ UNCHANGED <<probe, carver_vars>>

\* _is_in_carved_region(offset) up to its loop
StartQuery ==
    /\ result.status = "loaded"
    /\ result.query = 0 - 1
    /\ \E q \in 0..MaxQuery :
         result' = [result EXCEPT
                      !.query = q, !.lo = 0, !.hi = Len(result.carved_regions),
                      !.answer = IF result.carved_regions = <<>> THEN "false" ELSE "none"]
    /\ UNCHANGED <<probe, carver_vars>>

\* the body of the while loop with hi = mid - 1 in place of hi = mid
SearchBody_HiBelowMid(s) ==
    LET mid == (s.lo + s.hi) \div 2
        r == s.carved_regions[mid + 1]
    IN  IF r[1] <= s.query /\ s.query < r[2]
        THEN [s EXCEPT !.answer = "true", !.turns = @ + 1]
        ELSE IF s.query < r[1]
        THEN [s EXCEPT !.hi = mid - 1, !.turns = @ + 1]
        ELSE [s EXCEPT !.lo = mid + 1, !.turns = @ + 1]

\* the body of the while loop
SearchBody(s) ==
    LET mid == (s.lo + s.hi) \div 2
        r == s.carved_regions[mid + 1]
    IN  IF r[1] <= s.query /\ s.query < r[2]
        THEN [s EXCEPT !.answer = "true", !.turns = @ + 1]
        ELSE IF s.query < r[1]
        THEN [s EXCEPT !.hi = mid, !.turns = @ + 1]
        ELSE [s EXCEPT !.lo = mid + 1, !.turns = @ + 1]

\* one turn of the while loop
SearchTurn ==
    /\ result.status = "loaded"
    /\ result.query >= 0
    /\ result.answer = "none"
    /\ result.lo < result.hi
    /\ result' = SearchBody(result)
    /\ UNCHANGED <<probe, carver_vars>>

\* the loop condition fails: return False
SearchExit ==
    /\ result.status = "loaded"
    /\ result.query >= 0
    /\ result.answer = "none"
    /\ result.lo >= result.hi
    /\ result' = [result EXCEPT !.answer = "false"]
    /\ UNCHANGED <<probe, carver_vars>>

NextStrings ==
    \/ LoadManifest
    \/ SetRegions
    \/ StartQuery
    \/ SearchTurn
    \/ SearchExit

SpecStrings == InitStrings /\ [][NextStrings]_vars

(***************************************************************************)
(* C23.  After a manifest is loaded the region list is sorted by start,    *)
(* pairwise non-overlapping, and covers exactly the bytes of the ranges    *)
(* [offset, offset + size_in_dump) of the entries with size_in_dump > 0,   *)
(* an entry at capture offset 0 included.                                  *)
(***************************************************************************)
CoveredBy(regions) ==
    {b \in 0..(MaxQuery + 1) : \E i \in 1..Len(regions) : regions[i][1] <= b /\ b < regions[i][2]}

ManifestRanges(entries) ==
    {b \in 0..(MaxQuery + 1) : \E i \in 1..Len(entries) :
        /\ entries[i][2] > 0
        /\ entries[i][1] <= b
        /\ b < entries[i][1] + entries[i][2]}

C23_RegionsCoverManifest ==
    (probe.oracle = "manifest" /\ result # Pending) =>
        /\ \A i \in 1..(Len(result.carved_regions) - 1) :
              /\ result.carved_regions[i][1] < result.carved_regions[i + 1][1]
              /\ result.carved_regions[i][2] <= result.carved_regions[i + 1][1]
        /\ CoveredBy(result.carved_regions) = ManifestRanges(probe.data)

(***************************************************************************)
(* C24.  For every sorted, pairwise non-overlapping region list and every  *)
(* offset, _is_in_carved_region(offset) is true exactly when some region   *)
(* has start <= offset < end, and its loop ends: the turns taken plus the  *)
(* width hi - lo of the interval still to search never exceed the number   *)
(* of regions, and every turn adds one to the turns.                       *)
(***************************************************************************)
InSomeRegion(regions, q) ==
    \E i \in 1..Len(regions) : regions[i][1] <= q /\ q < regions[i][2]

C24_BinarySearchIsMembership ==
    (result # Pending /\ result.query >= 0 /\ SortedDisjoint(result.carved_regions)) =>
        /\ result.turns <= Len(result.carved_regions)
        /\ result.answer = "none" =>
              /\ result.lo <= result.hi
              /\ result.turns + (result.hi - result.lo) <= Len(result.carved_regions)
        /\ result.answer # "none" =>
              (result.answer = "true" <=> InSomeRegion(result.carved_regions, result.query))

\* three regions, two of them touching, and an offset in the last one,
\* found in the second turn
C24_Witness ==
    /\ result # Pending
    /\ Len(result.carved_regions) = 3
    /\ result.carved_regions[1][2] = result.carved_regions[2][1]
    /\ result.answer = "true"
    /\ result.turns = 2
    /\ result.carved_regions[3][1] <= result.query

(***************************************************************************)
(* C25.  The length the script oracle recovers is the earlier of (a) the   *)
(* newline preceding the next header keyword found after the first line    *)
(* (the keyword's own position if no newline precedes it) and (b) the      *)
(* first byte that is 0, or below 0x20 and not tab/LF/CR, or above 0x7E    *)
(* (the buffer length if there is neither), with trailing tab/LF/CR/space  *)
(* bytes trimmed; a result shorter than 10 bytes is rejected.              *)
(***************************************************************************)
\* the buffer the oracle looks at
ScriptBuffer == Slice(probe.data, probe.offset, Len(probe.data))

KeywordAt(d, p) ==
    \E h \in SCRIPT_HEADERS : p + Len(h) <= Len(d) /\ SubSeq(d, p + 1, p + Len(h)) = h

\* (a): at is the index of the first newline
KeywordCut(d, at) ==
    LET keywords == {p \in (at + 1)..(Len(d) - 1) : KeywordAt(d, p)}
        next == CHOOSE p \in keywords : \A q \in keywords : p <= q
        newlines == {i \in 0..(next - 1) : d[i + 1] = 10}
    IN  IF keywords = {} THEN Len(d)
        ELSE IF newlines = {} THEN next
        ELSE CHOOSE i \in newlines : \A j \in newlines : i >= j

\* (b)
GarbageCut(d) ==
    LET garbage == {i \in 0..(Len(d) - 1) :
                       \/ d[i + 1] = 0
                       \/ (d[i + 1] < 32 /\ d[i + 1] \notin {9, 10, 13})
                       \/ d[i + 1] > 126}
    IN  IF garbage = {} THEN Len(d)
        ELSE CHOOSE i \in garbage : \A j \in garbage : i <= j

\* the longest prefix of the first n bytes that does not end in whitespace
WithoutTrailingSpace(d, n) ==
    LET ends == {m \in 0..n : m = 0 \/ d[m] \notin {9, 10, 13, 32}}
    IN  CHOOSE m \in ends : \A k \in ends : m >= k

FirstNewline(d) == Find_bytes(d, Newline, 0)

ExpectedLength(d) ==
    WithoutTrailingSpace(d, Min(KeywordCut(d, FirstNewline(d)), GarbageCut(d)))

C25_RecoveredLength ==
    (probe.oracle = "script" /\ result # Pending) =>
        /\ result.status = "verdict" =>
              /\ result.size = ExpectedLength(ScriptBuffer)
              /\ result.size >= 10
        /\ (FirstNewline(ScriptBuffer) # -1 /\ ExpectedLength(ScriptBuffer) < 10) =>
              result.status = "none"

\* a keyword and, after it, garbage: the length is cut at the newline
\* before the keyword and then trimmed further
C25_Witness ==
    /\ probe.oracle = "script"
    /\ result # Pending
    /\ result.status = "verdict"
    /\ KeywordCut(ScriptBuffer, FirstNewline(ScriptBuffer)) < GarbageCut(ScriptBuffer)
    /\ GarbageCut(ScriptBuffer) < Len(ScriptBuffer)
    /\ result.size < KeywordCut(ScriptBuffer, FirstNewline(ScriptBuffer))

(***************************************************************************)
(* The oracles of the console executable and package formats (XEXParser,   *)
(* XDBFParser, XUIParser, STFSParser).  A 32-bit header field can hold a   *)
(* value beyond the integers of the model checker, so a field value v is   *)
(* kept as its top bit and its low 31 bits: v = 2^31 * (1 if big) + val.   *)
(***************************************************************************)
Wide(n) == [big |-> FALSE, val |-> n]

\* struct.unpack(">I", four)[0]: struct.error unless exactly four bytes
unpack_be_wide(four) ==
    IF Len(four) # 4 THEN Raise("struct.error")
    ELSE Value([big |-> four[1] >= 128,
                val |-> 16777216 * (four[1] % 128) + 65536 * four[2]
                        + 256 * four[3] + four[4]])

\* w < n and w > n for n below 2^31
WideBelow(w, n) == ~w.big /\ w.val < n
WideAbove(w, n) == w.big \/ w.val > n

\* estimated_size = max(header_size, 4096), replaced by
\* min(image_size, 50 MiB) when 0 < image_size < 100 MiB
XexEstimate(header_size, image_size) ==
    IF WideAbove(image_size, 0) /\ WideBelow(image_size, 104857600)
    THEN Wide(Min(image_size.val, 52428800))
    ELSE IF header_size.big THEN header_size
    ELSE Wide(Max(header_size.val, 4096))

XexTryBody(data, at) ==
    LET header_size == unpack_be_wide(Slice(data, at + 16, at + 20))
        image_size == unpack_be_wide(Slice(data, at + 20, at + 24))
    IN  IF Slice(data, at, at + 4) # <<88, 69, 88, 50>> THEN Value(Reject)
        ELSE IF header_size.exc # "none" THEN header_size
        ELSE IF image_size.exc # "none" THEN image_size
        ELSE Value([status |-> "verdict", caught |-> FALSE, format |-> "XEX2",
                    estimated_size |-> XexEstimate(header_size.val, image_size.val)])

XexParseHeader(data, at) ==
    IF Len(data) < at + 24 THEN Reject
    ELSE TryExcept(XexTryBody(data, at), StructOrIndexError)

\* min(24 + entry_table_len * 18 + free_table_len * 8 + entry_count * 1024,
\* 10 MiB).  A term that alone exceeds 10 MiB makes the minimum 10 MiB;
\* otherwise the sum is computed as it is.
XdbfEstimate(entry_table_len, free_table_len, entry_count) ==
    LET fits(w, k) == ~w.big /\ w.val <= 10485760 \div k
    IN  IF fits(entry_table_len, 18) /\ fits(free_table_len, 8) /\ fits(entry_count, 1024)
        THEN Min(24 + entry_table_len.val * 18 + free_table_len.val * 8
                    + entry_count.val * 1024, 10485760)
        ELSE 10485760

XdbfTryBody(data, at) ==
    LET version == unpack_be_wide(Slice(data, at + 4, at + 8))
        entry_table_len == unpack_be_wide(Slice(data, at + 8, at + 12))
        entry_count == unpack_be_wide(Slice(data, at + 12, at + 16))
        free_table_len == unpack_be_wide(Slice(data, at + 16, at + 20))
    IN  IF Slice(data, at, at + 4) # <<88, 68, 66, 70>> THEN Value(Reject)
        ELSE IF version.exc # "none" \/ entry_table_len.exc # "none"
                \/ entry_count.exc # "none" \/ free_table_len.exc # "none"
        THEN Raise("struct.error")
        ELSE Value([status |-> "verdict", caught |-> FALSE, format |-> "XDBF",
                    estimated_size |-> Wide(XdbfEstimate(entry_table_len.val,
                                            free_table_len.val, entry_count.val))])

XdbfParseHeader(data, at) ==
    IF Len(data) < at + 24 THEN Reject
    ELSE TryExcept(XdbfTryBody(data, at), StructOrIndexError)

XuiTryBody(data, at) ==
    LET magic == Slice(data, at, at + 4)
        format_type == IF magic = <<88, 85, 73, 83>> THEN "XUIS" ELSE "XUIB"
        size_field == unpack_be_wide(Slice(data, at + 8, at + 12))
    IN  IF magic \notin {<<88, 85, 73, 83>>, <<88, 85, 73, 66>>} THEN Value(Reject)
        ELSE IF format_type = "XUIB" /\ Len(data) >= at + 12 /\ size_field.exc # "none"
        THEN size_field
        ELSE IF /\ format_type = "XUIB"
                /\ Len(data) >= at + 12
                /\ WideAbove(size_field.val, 16)
                /\ WideBelow(size_field.val, 10485760)
        THEN Value([status |-> "verdict", caught |-> FALSE, format |-> format_type,
                    estimated_size |-> size_field.val])
        ELSE Value([status |-> "verdict", caught |-> FALSE, format |-> format_type,
                    estimated_size |-> Wide(50000)])

XuiParseHeader(data, at) ==
    IF Len(data) < at + 16 THEN Reject
    ELSE TryExcept(XuiTryBody(data, at), StructOrIndexError)

StfsTryBody(data, at) ==
    LET magic == Slice(data, at, at + 4)
        format_type == IF magic = <<80, 73, 82, 83>> THEN "PIRS"
                       ELSE IF magic = <<76, 73, 86, 69>> THEN "LIVE" ELSE "CON"
        content_size == unpack_be_wide(Slice(data, at + 836, at + 840))
    IN  IF magic \notin {<<80, 73, 82, 83>>, <<67, 79, 78, 32>>, <<76, 73, 86, 69>>}
        THEN Value(Reject)
        ELSE IF Len(data) >= at + 840 /\ content_size.exc # "none" THEN content_size
        ELSE IF /\ Len(data) >= at + 840
                /\ WideAbove(content_size.val, 0)
                /\ WideBelow(content_size.val, 104857600)
        THEN Value([status |-> "verdict", caught |-> FALSE, format |-> format_type,
                    estimated_size |-> Wide(content_size.val.val + 4096)])
        ELSE Value([status |-> "verdict", caught |-> FALSE, format |-> format_type,
                    estimated_size |-> Wide(100000)])

StfsParseHeader(data, at) ==
    IF Len(data) < at + 512 THEN Reject
    ELSE TryExcept(StfsTryBody(data, at), StructOrIndexError)

\* the values a 32-bit field is given, as its four bytes: 0, 1, 16, 17,
\* 4096, 4097, 10 MiB - 1, 10 MiB, 50 MiB, 50 MiB + 1, 100 MiB - 1,
\* 100 MiB, 2^31 - 1, 2^31 and 2^32 - 1
FieldBytes ==
    {<<0, 0, 0, 0>>, <<0, 0, 0, 1>>, <<0, 0, 0, 16>>, <<0, 0, 0, 17>>,
     <<0, 0, 16, 0>>, <<0, 0, 16, 1>>, <<0, 159, 255, 255>>, <<0, 160, 0, 0>>,
     <<3, 32, 0, 0>>, <<3, 32, 0, 1>>, <<6, 63, 255, 255>>, <<6, 64, 0, 0>>,
     <<127, 255, 255, 255>>, <<128, 0, 0, 0>>, <<255, 255, 255, 255>>}

\* a few of them for the formats with three fields
FewFieldBytes ==
    {<<0, 0, 0, 0>>, <<0, 0, 0, 1>>, <<0, 0, 16, 1>>, <<0, 8, 227, 142>>,
     <<0, 160, 0, 0>>, <<127, 255, 255, 255>>, <<255, 255, 255, 255>>}

ConsoleProbes ==
    {Probe("xex", <<88, 69, 88, 50>> \o Zeros(12) \o h \o m, 0, NoAbout) :
        h \in FieldBytes, m \in FieldBytes}
    \cup
    {Probe("xdbf", <<88, 68, 66, 70>> \o <<0, 1, 0, 0>> \o e \o c \o f \o Zeros(4), 0, NoAbout) :
        e \in FewFieldBytes, c \in FewFieldBytes, f \in FewFieldBytes}
    \cup
    {Probe("xui", magic \o Zeros(4) \o v \o Zeros(4), 0, NoAbout) :
        magic \in {<<88, 85, 73, 83>>, <<88, 85, 73, 66>>}, v \in FieldBytes}
    \cup
    {Probe("stfs", magic \o Zeros(832) \o v, 0, NoAbout) :
        magic \in {<<80, 73, 82, 83>>, <<67, 79, 78, 32>>, <<76, 73, 86, 69>>},
        v \in FieldBytes}
    \cup
    {Probe("stfs", <<76, 73, 86, 69>> \o Zeros(n), 0, NoAbout) : n \in {507, 508, 835}}
    \cup
    {Probe(o, <<88, 69, 88, 50>> \o Zeros(n), 0, NoAbout) :
        o \in {"xex", "xdbf", "xui"}, n \in {11, 19, 20}}

InitConsole ==
    /\ probe \in ConsoleProbes
    /\ result = Pending
    /\ CarverAtRest

ParseXex ==
    /\ probe.oracle = "xex"
    /\ result = Pending
    /\ result' = XexParseHeader(probe.data, probe.offset)
    /\ UNCHANGED <<probe, carver_vars>>

ParseXdbf ==
    /\ probe.oracle = "xdbf"
    /\ result = Pending
    /\ result' = XdbfParseHeader(probe.data, probe.offset)
    /\ UNCHANGED <<probe, carver_vars>>

ParseXui ==
    /\ probe.oracle = "xui"
    /\ result = Pending
    /\ result' = XuiParseHeader(probe.data, probe.offset)
    /\ UNCHANGED <<probe, carver_vars>>

ParseStfs ==
    /\ probe.oracle = "stfs"
    /\ result = Pending
    /\ result' = StfsParseHeader(probe.data, probe.offset)
    /\ UNCHANGED <<probe, carver_vars>>

NextConsole ==
    \/ ParseXex
    \/ ParseXdbf
    \/ ParseXui
    \/ ParseStfs

SpecConsole == InitConsole /\ [][NextConsole]_vars

(***************************************************************************)
(* C26.  Whatever the 32-bit header fields hold, the size each console     *)
(* oracle returns is within its ceiling: XEX at most 50 MiB, XDBF at most  *)
(* 10 MiB, XUI below 10 MiB, STFS below 100 MiB + 0x1000.                  *)
(***************************************************************************)
C26_SizeWithinCeiling ==
    (result # Pending /\ result.status = "verdict") =>
        CASE probe.oracle = "xex" -> ~WideAbove(result.estimated_size, 52428800)
          [] probe.oracle = "xdbf" -> ~WideAbove(result.estimated_size, 10485760)
          [] probe.oracle = "xui" -> WideBelow(result.estimated_size, 10485760)
          [] probe.oracle = "stfs" -> WideBelow(result.estimated_size, 104857600 + 4096)

(***************************************************************************)
(* C27.  At the end of a scan run by a new carver, the counter of every    *)
(* type that get_statistics returns equals the number of manifest records  *)
(* of that type, also when candidates were skipped as identical duplicates *)
(* or failed while being written.                                          *)
(***************************************************************************)
C27_CounterEqualsRecords ==
    \A i \in 1..Len(scans) :
        (scans[i].done /\ scans[i].stats0 = ZeroStats) =>
            \A t \in FileTypes :
                scans[i].stats[t] = Cardinality(PositionsOfType(scans[i].manifest, t))

(***************************************************************************)
(* C28.  For every record that is not a decompressed stream, size_in_dump  *)
(* and size_output are the number of bytes read from the capture at the    *)
(* record's offset and written to the output file, so that offset +        *)
(* size_in_dump never exceeds the length of the capture.                   *)
(***************************************************************************)
C28_SizeIsBytesRead ==
    /\ \A k \in 1..Len(manifest) :
          ~manifest[k].is_compressed =>
              manifest[k].offset + manifest[k].size_in_dump <= dump.size
    /\ last.outcome = "carved" =>
          /\ manifest[Len(manifest)].size_in_dump = last.data.len
          /\ manifest[Len(manifest)].size_output = last.data.len

(***************************************************************************)
(* Scans that run to their end.  The captures have 1, 2600 or CaptureSize  *)
(* bytes, the window is smaller than the overlap, smaller than the capture *)
(* or larger than it.  carve_dump runs in one thread and nothing in it     *)
(* waits, so a step that can be taken is taken (weak fairness of the       *)
(* carver's steps); the interruption of a scan is left out.                *)
(***************************************************************************)
LivePool == {h \in HitPool : h.off \in {1500, 2100, 4000, 6500}}

LiveCaptures ==
    {[size |-> n, hits |-> hs] :
        n \in {1, 2600, CaptureSize},
        hs \in {x \in SUBSET LivePool : Cardinality(x) <= MaxHits}}

InitLive ==
    /\ dump \in {d \in LiveCaptures : \A h \in d.hits : h.off + 4 <= d.size}
    /\ chunk_size \in {1000, 5000, 12500}
    /\ max_files_per_type \in {1, MaxFilesCap}
    /\ stats = ZeroStats
    /\ manifest = <<>>
    /\ fs = EmptyDir
    /\ manifest_file = NoManifestFile
    /\ pc = "idle"
    /\ offset = 0
    /\ chunk_offset = 0
    /\ chunk_len = 0
    /\ sig_idx = 1
    /\ search_pos = 0
    /\ win = 0
    /\ scan_no = MaxScans - 1
    /\ fault_budget = MaxFaults
    /\ handed = {}
    /\ skipped = {}
    /\ searched = {}
    /\ last = NoExtract
    /\ scans = <<>>
    /\ probe = NoProbe
    /\ result = Pending

NextScan ==
    \/ CarveDump
    \/ ReadChunk
    \/ SkipCapped
    \/ SearchEnd
    \/ SkipOverlap
    \/ ExtractHit
    \/ NextChunk
    \/ SaveManifest

SpecLive == InitLive /\ [][NextScan]_vars /\ WF_vars(NextScan)

(***************************************************************************)
(* C29.  A scan of a finite capture with a positive window size ends and   *)
(* then writes the manifest: every window iteration adds the window size   *)
(* to the logical offset, and in a window the search cursor grows with     *)
(* every hit, whether the hit is skipped as overlap, rejected or           *)
(* extracted (a hit whose extraction raises ends the search of its type in *)
(* the window).                                                            *)
(***************************************************************************)
C29_ScanTerminates ==
    /\ [][NextChunk => (offset' = offset + chunk_size /\ chunk_size > 0)]_vars
    /\ [][(pc' = "search") => search_pos' > SearchFrom]_vars
    /\ (pc = "while") ~> (pc = "done" /\ manifest_file = [exists |-> TRUE, data |-> ManifestData(manifest)])

\* a scan over more than two windows has ended with its manifest written,
\* after a hit was skipped as overlap and a hit was rejected
C29_Witness ==
    /\ pc = "done"
    /\ manifest_file.exists
    /\ win > 2
    /\ skipped # {}
    /\ \E i \in 1..Len(scans) : scans[i].done
    /\ last.outcome = "reject"

(***************************************************************************)
(* The report of extract_dump: set_dump_info stores the capture's size,    *)
(* add_carved_files adds up the manifest entries of the scan, and          *)
(* calculate_coverage derives the coverage figures.  coverage_percent is   *)
(* identified_bytes / dump_size * 100, kept as the fraction it is          *)
(* computed from.                                                          *)
(***************************************************************************)
NewReport(dump_size) ==
    [dump_size |-> dump_size, files_by_type |-> [t \in {} |-> 0],
     total_files_carved |-> 0, total_bytes_carved |-> 0,
     identified_bytes |-> 0, unknown_bytes |-> 0,
     coverage |-> [num |-> 0, den |-> 1]]

AddCarvedFile(report, entry) ==
    LET t == entry.file_type
        by0 == report.files_by_type
        row == IF t \in DOMAIN by0 THEN by0[t] ELSE [count |-> 0, total_bytes |-> 0]
        by1 == [u \in DOMAIN by0 \cup {t} |->
                   IF u = t
                   THEN [count |-> row.count + 1,
                         total_bytes |-> row.total_bytes + entry.size_in_dump]
                   ELSE by0[u]]
    IN  [report EXCEPT !.files_by_type = by1,
                       !.total_files_carved = @ + 1,
                       !.total_bytes_carved = @ + entry.size_in_dump]

RECURSIVE AddCarvedFiles(_, _)
AddCarvedFiles(report, manifest_entries) ==
    IF manifest_entries = <<>> THEN report
    ELSE AddCarvedFiles(AddCarvedFile(report, Head(manifest_entries)),
                        Tail(manifest_entries))

CalculateCoverage(report) ==
    IF report.dump_size > 0
    THEN [report EXCEPT !.identified_bytes = report.total_bytes_carved,
                        !.unknown_bytes = report.dump_size - report.total_bytes_carved,
                        !.coverage = [num |-> report.total_bytes_carved,
                                      den |-> report.dump_size]]
    ELSE report

\* the report extract_dump makes of the manifest of scan i
ReportOf(i) ==
    CalculateCoverage(AddCarvedFiles(NewReport(dump.size), scans[i].manifest))

\* every record of scan i lies in the capture, and no two records have the
\* same type and offset
PlainManifest(i) ==
    LET m == scans[i].manifest
    IN  /\ \A k \in 1..Len(m) : m[k].offset + m[k].size_in_dump <= dump.size
        /\ \A k, l \in 1..Len(m) :
               (m[k].file_type = m[l].file_type /\ m[k].offset = m[l].offset) => k = l

(***************************************************************************)
(* C30.  The report made of the manifest of a scan of a capture of N > 0   *)
(* bytes has identified_bytes <= N and unknown_bytes >= 0, so that the     *)
(* coverage lies between 0 and 100 percent, also when records overlap in   *)
(* the capture (stated for the first scan of a new carver whose records    *)
(* all lie in the capture and are one per type and offset).                *)
(***************************************************************************)
C30_CoverageWithinCapture ==
    \A i \in 1..Len(scans) :
        (FreshScan(i) /\ dump.size > 0 /\ PlainManifest(i)) =>
            LET r == ReportOf(i)
            IN  /\ r.identified_bytes >= 0
                /\ r.identified_bytes <= dump.size
                /\ r.unknown_bytes >= 0
                /\ r.coverage.num <= r.coverage.den

====
